---- MODULE Spec2Model ----
(***************************************************************************)
(* Hazard deduplication and lifecycle engine of ai-road-safety-system.     *)
(*                                                                         *)
(* Units.  Coordinates are integers counting 1/10000 of a degree, so that  *)
(* rounding to three decimals is visible; times are integer milliseconds   *)
(* since the epoch; SLA deadlines are integer hours.                       *)
(***************************************************************************)
EXTENDS Integers, Sequences, FiniteSets, TLC

VARIABLES
    now,        \* the wall clock, Date.now(), in ms
    hazards,    \* the Hazard collection: _id -> document
    alerts,     \* the Alert collection: _id -> document
    tickets,    \* the Ticket collection: _id -> document
    req,        \* POST /api/hazards requests in flight: position and locals
    res,        \* the last response of the ticket routes
    fp,         \* a pair of observations and their fingerprints
    sla,        \* a ticket read through the slaStatus virtual
    rel,        \* an alert read through isRelevant
    mg,         \* a group of hazards handed to mergeHazards, and the result
    risk,       \* a hazard read through the two risk scores
    dup,        \* hazards compared by areHazardsSimilar and findDuplicates
    gone        \* the _id values of deleted hazards, which are not issued again

vars == <<now, hazards, alerts, tickets, req, res, fp, sla, rel, mg, risk, dup, gone>>

-----------------------------------------------------------------------------
(* Bounds of the model *)

MaxRequests == 2
MaxHazards == 1
MaxTicks == 2
MaxTickets == 1
MaxTimeline == 2
MaxAlerts == 1
MaxAlertTicks == 1
MaxReports == 2
MaxVotes == 2
MaxCreated == 2
MaxIdTicks == 1
MaxGroup == 3
MaxList == 3

-----------------------------------------------------------------------------
(* Enumerations of the schemas *)

HazardTypes == {"pothole", "debris"}
Severities == {"low", "medium", "high", "critical"}
HazardStatuses == {"active", "reported", "in_progress", "fixed", "false_positive"}
FeedbackTypes == {"confirmed", "false_positive", "fixed", "still_exists"}
TicketStatuses ==
    {"submitted", "acknowledged", "assigned", "in_progress",
     "completed", "rejected", "duplicate"}
Priorities == {"low", "medium", "high", "urgent"}

None == "none"

-----------------------------------------------------------------------------
(* Fingerprint generator *)

Abs(n) == IF n < 0 THEN -n ELSE n

Digit(d) ==
    CASE d = 0 -> "0" [] d = 1 -> "1" [] d = 2 -> "2" [] d = 3 -> "3"
      [] d = 4 -> "4" [] d = 5 -> "5" [] d = 6 -> "6" [] d = 7 -> "7"
      [] d = 8 -> "8" [] d = 9 -> "9"

RECURSIVE NatStr(_)
NatStr(n) == IF n < 10 THEN Digit(n) ELSE NatStr(n \div 10) \o Digit(n % 10)

\* `${n}` for an integer n.
IntStr(n) == IF n < 0 THEN "-" \o NatStr(-n) ELSE NatStr(n)

\* `${k / 1000}` for an integer k: the shortest decimal, no trailing zeros,
\* and "0" for both zeros.
MilliStr(k) ==
    LET a == Abs(k)
        f == a % 1000
        frac == IF f = 0 THEN ""
                ELSE IF f % 10 # 0
                     THEN "." \o Digit(f \div 100) \o Digit((f \div 10) % 10) \o Digit(f % 10)
                ELSE IF (f \div 10) % 10 # 0
                     THEN "." \o Digit(f \div 100) \o Digit((f \div 10) % 10)
                ELSE "." \o Digit(f \div 100)
    IN  (IF k < 0 THEN "-" ELSE "") \o NatStr(a \div 1000) \o frac

\* Math.round(c * 1000) for a coordinate c: halves go up.
RoundMilli(c) == (c + 5) \div 10

\* Math.floor(detectedAt.getTime() / (1000 * 60 * 5))
TimeWindow(t) == t \div (1000 * 60 * 5)

\* crypto md5 digest, taken as collision-free.
md5(s) == "md5(" \o s \o ")"

generateHashUnrounded(type, lng, lat, detectedAt) ==
    md5(type \o "-" \o IntStr(lat) \o "-" \o IntStr(lng) \o "-"
             \o IntStr(TimeWindow(detectedAt)))

generateHash(type, lng, lat, detectedAt) ==
    md5(type \o "-" \o MilliStr(RoundMilli(lat)) \o "-" \o MilliStr(RoundMilli(lng))
             \o "-" \o IntStr(TimeWindow(detectedAt)))

-----------------------------------------------------------------------------
(* Stores *)

Ids(store) == DOMAIN store

\* The _id a new document of the collection gets.
NewId(store) == Cardinality(DOMAIN store) + 1

\* Model.save() of a new document.
Insert(store, doc) ==
    [i \in DOMAIN store \cup {NewId(store)} |->
        IF i \in DOMAIN store THEN store[i] ELSE doc]

findOneNothing(hash) == <<>>

\* Hazard.findOne({ hash }): the first stored hazard with this hash, if any.
findOneByHash(hash) ==
    LET found == {i \in Ids(hazards) : hazards[i].hash = hash}
    IN  IF found = {} THEN <<>>
        ELSE <<CHOOSE i \in found : \A j \in found : i <= j>>

NoUniqueIndex(hash) == FALSE

\* The unique index on Hazard.hash: an insert of a hash that is already
\* stored is refused with the duplicate key error 11000.
DuplicateKey(hash) == \E i \in Ids(hazards) : hazards[i].hash = hash

\* The feedback of a new hazard: no reports, no votes.
NoFeedback == [reports |-> <<>>, upvotes |-> 0, downvotes |-> 0]

\* errorHandler: the status sent for an error the route passed to next().
errorHandler(err) ==
    CASE err = "CastError" -> 404
      [] err = "E11000" -> 400
      [] err = "ValidationError" -> 400
      [] OTHER -> 500

-----------------------------------------------------------------------------
(* Tickets: the document Ticket.createFromHazard builds *)

\* An optional number is a sequence of length 0 (undefined) or 1.
Undefined == <<>>
Some(n) == <<n>>

NoSla == [responseTime |-> Undefined, resolutionTime |-> Undefined]

\* A request body for the ticket routes: the fields it names (has) and
\* their values; fields the schema does not know are dropped by Mongoose.
NoBody == [has |-> {}, priority |-> "medium", sla |-> NoSla, status |-> "submitted"]

\* { ...base, ...additionalData }
Spread(base, additionalData) ==
    [k \in DOMAIN base |->
        IF k \in additionalData.has THEN additionalData[k] ELSE base[k]]

\* Ticket.createFromHazard(hazard, additionalData)
createFromHazard(hazard, hazardId, additionalData) ==
    Spread([hazardId |-> hazardId,
            severity |-> hazard.severity,
            priority |-> IF hazard.severity = "critical" THEN "urgent"
                         ELSE IF hazard.severity = "high" THEN "high"
                         ELSE "medium",
            sla |-> [responseTime |->
                        IF hazard.severity = "critical" THEN Some(2)
                        ELSE IF hazard.severity = "high" THEN Some(4)
                        ELSE Some(8),
                     resolutionTime |->
                        IF hazard.severity = "critical" THEN Some(24)
                        ELSE IF hazard.severity = "high" THEN Some(48)
                        ELSE Some(72)],
            status |-> "submitted",
            timeline |-> <<>>,
            assignedTo |-> None,
            feedback |-> Undefined,
            externalSystems |-> {}],
           additionalData)

\* Alert.createHazardAlert(userId, hazard, userLocation)
createHazardAlert(userId, hazard, hazardId) ==
    [userId |-> userId,
     hazardId |-> hazardId,
     type |-> "hazard_detected",
     priority |-> IF hazard.severity = "critical" THEN "urgent"
                  ELSE hazard.severity]

-----------------------------------------------------------------------------
(* POST /api/hazards, one action per stretch between two awaits *)

Requests == 1 .. MaxRequests

\* The observations a client reports: type, longitude, latitude.
Observations ==
    {<<"pothole", 772090, 286139>>,
     <<"pothole", 772089, 286139>>,
     <<"debris", 772090, 286139>>}

ReportedSeverities == {"low", "high", "critical"}

NoResponse == [route |-> None, id |-> 0, status |-> 0]

IdleRequest ==
    [pc |-> "idle", severity |-> "low", hash |-> "", hazardId |-> 0,
     status |-> 0, existingHazardId |-> 0]

\* The request is answered: its locals are gone, the response stays.
Respond(r, status, existingHazardId) ==
    req' = [req EXCEPT ![r] = [pc |-> "done", severity |-> "low", hash |-> @.hash,
                               hazardId |-> @.hazardId, status |-> status,
                               existingHazardId |-> existingHazardId]]

\* validateHazard strips detectedAt, so generateHash takes new Date(); then
\* Hazard.findOne({ hash }) answers 409 or lets the request go on.
PostHazardLookup(r) ==
    /\ req[r].pc = "idle"
    /\ \E o \in Observations, sev \in ReportedSeverities, image \in BOOLEAN :
          LET hash == generateHash(o[1], o[2], o[3], now)
              existingHazard == findOneByHash(hash)
          IN  IF existingHazard # <<>>
              THEN req' = [req EXCEPT ![r] =
                               [pc |-> "done", severity |-> "low", hash |-> hash,
                                hazardId |-> 0, status |-> 409,
                                existingHazardId |-> existingHazard[1]]]
              ELSE req' = [req EXCEPT ![r] =
                               [pc |-> IF image THEN "image" ELSE "save",
                                severity |-> sev, hash |-> hash, hazardId |-> 0,
                                status |-> 0, existingHazardId |-> 0]]
    /\ UNCHANGED <<now, hazards, alerts, tickets, res, fp, sla, rel, mg, risk, dup, gone>>

\* await processImage(imageUrl): it succeeds or throws, and the route goes
\* on either way.
PostHazardProcessImage(r) ==
    /\ req[r].pc = "image"
    /\ req' = [req EXCEPT ![r].pc = "save"]
    /\ UNCHANGED <<now, hazards, alerts, tickets, res, fp, sla, rel, mg, risk, dup, gone>>

\* await hazard.save(): the insert, or the duplicate key error handed to
\* next(error).
PostHazardSave(r) ==
    /\ req[r].pc = "save"
    /\ IF DuplicateKey(req[r].hash)
       THEN /\ Respond(r, errorHandler("E11000"), 0)
            /\ UNCHANGED hazards
       ELSE /\ hazards' = Insert(hazards,
                               [hash |-> req[r].hash, severity |-> req[r].severity,
                                status |-> "active", tickets |-> <<>>,
                                feedback |-> NoFeedback])
            /\ req' = [req EXCEPT ![r].pc = "alert", ![r].hazardId = NewId(hazards)]
    /\ UNCHANGED <<now, alerts, tickets, res, fp, sla, rel, mg, risk, dup, gone>>

\* The alert block: for a high or critical hazard the alert is saved.
PostHazardAlert(r) ==
    /\ req[r].pc = "alert"
    /\ IF req[r].severity \in {"high", "critical"}
       THEN alerts' = Insert(alerts, createHazardAlert("system", hazards[req[r].hazardId], req[r].hazardId))
       ELSE UNCHANGED alerts
    /\ req' = [req EXCEPT ![r].pc = "ticket"]
    /\ UNCHANGED <<now, hazards, tickets, res, fp, sla, rel, mg, risk, dup, gone>>

\* The ticket block for a critical hazard (ticket.save, then the hazard's
\* tickets list); then the 201 response.
PostHazardTicket(r) ==
    /\ req[r].pc = "ticket"
    /\ IF req[r].severity = "critical"
       THEN /\ tickets' = Insert(tickets, createFromHazard(hazards[req[r].hazardId], req[r].hazardId, NoBody))
            /\ hazards' = [hazards EXCEPT ![req[r].hazardId].tickets =
                                              Append(@, NewId(tickets))]
       ELSE UNCHANGED <<tickets, hazards>>
    /\ Respond(r, 201, 0)
    /\ UNCHANGED <<now, alerts, res, fp, sla, rel, mg, risk, dup, gone>>

\* Time passes.
Tick ==
    /\ now < MaxTicks * (1000 * 60 * 3)
    /\ now' = now + 1000 * 60 * 3
    /\ UNCHANGED <<hazards, alerts, tickets, req, res, fp, sla, rel, mg, risk, dup, gone>>

Init ==
    /\ now = 0
    /\ gone = {}
    /\ hazards = <<>>
    /\ alerts = <<>>
    /\ tickets = <<>>
    /\ req = [r \in Requests |-> IdleRequest]
    /\ res = NoResponse
    /\ fp = <<>>
    /\ sla = <<>>
    /\ rel = <<>>
    /\ mg = <<>>
    /\ risk = <<>>
    /\ dup = <<>>

Next ==
    \/ \E r \in Requests : PostHazardLookup(r)
    \/ \E r \in Requests : PostHazardProcessImage(r)
    \/ \E r \in Requests : PostHazardSave(r)
    \/ \E r \in Requests : PostHazardAlert(r)
    \/ \E r \in Requests : PostHazardTicket(r)
    \/ Tick

Spec == Init /\ [][Next]_vars

-----------------------------------------------------------------------------
(* generateHash applied to two observations *)

HashTypes == {"pothole", "debris"}
HashLngs == {-6, -5, 4, 5, 1000, 772089, 772090}
HashLats == {-6, 4, 1000, 286139}
HashTimes == {-1, 0, 299999, 300000}

HashInputs ==
    [type : HashTypes, lng : HashLngs, lat : HashLats, detectedAt : HashTimes]

HashInit ==
    /\ now = 0
    /\ gone = {}
    /\ hazards = <<>>
    /\ alerts = <<>>
    /\ tickets = <<>>
    /\ req = [r \in Requests |-> IdleRequest]
    /\ res = NoResponse
    /\ sla = <<>>
    /\ rel = <<>>
    /\ mg = <<>>
    /\ risk = <<>>
    /\ dup = <<>>
    /\ fp \in [a : HashInputs, b : HashInputs, ha : {""}, hb : {""}, pc : {"input"}]

Fingerprint ==
    /\ fp.pc = "input"
    /\ fp' = [fp EXCEPT
                 !.ha = generateHash(fp.a.type, fp.a.lng, fp.a.lat, fp.a.detectedAt),
                 !.hb = generateHash(fp.b.type, fp.b.lng, fp.b.lat, fp.b.detectedAt),
                 !.pc = "hashed"]
    /\ UNCHANGED <<now, hazards, alerts, tickets, req, res, sla, rel, mg, risk, dup, gone>>

HashNext == Fingerprint

SpecHash == HashInit /\ [][HashNext]_vars

-----------------------------------------------------------------------------
(* The slaStatus virtual read on a ticket *)

\* A value JavaScript takes as true: defined and not 0.
Truthy(opt) == opt # Undefined /\ opt[1] # 0

Hours(h) == h * 60 * 60 * 1000

\* ticketSchema.virtual('slaStatus'), read at time at
slaStatus(status, submittedAt, responseTime, resolutionTime, at) ==
    IF ~Truthy(responseTime) THEN "not_set"
    ELSE IF status = "submitted" /\ at > submittedAt + Hours(responseTime[1])
         THEN "overdue_response"
    ELSE IF /\ Truthy(resolutionTime)
            /\ status \in {"submitted", "acknowledged", "assigned", "in_progress"}
            /\ at > submittedAt + Hours(resolutionTime[1])
         THEN "overdue_resolution"
    ELSE "on_track"

SlaResponseTimes == {Undefined, Some(2), Some(8)}
SlaResolutionTimes == {Undefined, Some(4), Some(24)}
SlaSubmittedAts == {0, Hours(1)}
SlaReadTimes == {Hours(h) : h \in {1, 3, 5, 6, 9, 10, 25, 26, 74}}

SlaInit ==
    /\ now = 0
    /\ gone = {}
    /\ hazards = <<>>
    /\ alerts = <<>>
    /\ tickets = <<>>
    /\ req = [r \in Requests |-> IdleRequest]
    /\ res = NoResponse
    /\ fp = <<>>
    /\ rel = <<>>
    /\ mg = <<>>
    /\ risk = <<>>
    /\ dup = <<>>
    /\ sla \in [status : TicketStatuses, submittedAt : SlaSubmittedAts,
                 responseTime : SlaResponseTimes,
                 resolutionTime : SlaResolutionTimes,
                 at : SlaReadTimes, slaStatus : {None}, listed : {FALSE}]

ReadSlaStatus ==
    /\ sla.slaStatus = None
    /\ sla' = [sla EXCEPT !.slaStatus =
                  slaStatus(sla.status, sla.submittedAt, sla.responseTime,
                            sla.resolutionTime, sla.at)]
    /\ UNCHANGED <<now, hazards, alerts, tickets, req, res, fp, rel, mg, risk, dup, gone>>

SlaNext == ReadSlaStatus

SpecSla == SlaInit /\ [][SlaNext]_vars

\* The filter of Ticket.find in GET /api/tickets/sla/overdue, on one stored
\* ticket, with now = at; $exists: true holds for any stored value.
overdueFilter(ticket, at) ==
    /\ ticket.status \in {"submitted", "acknowledged", "assigned", "in_progress"}
    /\ \/ /\ ticket.responseTime # Undefined
          /\ ticket.submittedAt < at - 8 * 60 * 60 * 1000
          /\ ticket.status = "submitted"
       \/ /\ ticket.resolutionTime # Undefined
          /\ ticket.submittedAt < at - 72 * 60 * 60 * 1000
          /\ ticket.status \in {"acknowledged", "assigned", "in_progress"}

\* GET /api/tickets/sla/overdue at sla.at, and the ticket's slaStatus read
\* at the same time: listed tells whether the ticket is in the response.
GetSlaOverdue ==
    /\ sla.slaStatus = None
    /\ sla' = [sla EXCEPT
                  !.slaStatus = slaStatus(sla.status, sla.submittedAt,
                                          sla.responseTime, sla.resolutionTime,
                                          sla.at),
                  !.listed = overdueFilter(sla, sla.at)]
    /\ UNCHANGED <<now, hazards, alerts, tickets, req, res, fp, rel, mg, risk, dup, gone>>

OverdueNext == GetSlaOverdue

SpecOverdue == SlaInit /\ [][OverdueNext]_vars

-----------------------------------------------------------------------------
(* The ticket routes, each handled in one piece *)

\* Bodies of POST /api/tickets/from-hazard/:hazardId.
FromHazardBodies ==
    {NoBody,
     [has |-> {"priority", "sla"}, priority |-> "low",
      sla |-> [responseTime |-> Some(8), resolutionTime |-> Some(4)],
      status |-> "submitted"]}

\* Bodies of PUT /api/tickets/:id.
PutBodies ==
    {[has |-> {"status"}, priority |-> "medium", sla |-> NoSla, status |-> st] :
        st \in TicketStatuses}
    \cup
    {[has |-> {"sla"}, priority |-> "medium",
      sla |-> [responseTime |-> Some(8), resolutionTime |-> Some(4)],
      status |-> "submitted"]}

\* Bodies of POST /api/tickets/:id/assign: "" is a field left out.
Assignments ==
    {[department |-> "roads", contractor |-> ""],
     [department |-> "", contractor |-> "acme"]}

ExternalSystems == {"fixmystreet"}

\* ticketSchema.methods.updateStatus(newStatus, updatedBy, comment)
updateStatus(ticket, newStatus, comment) ==
    [ticket EXCEPT !.status = newStatus,
                   !.timeline = Append(@, [status |-> newStatus, comment |-> comment])]

assignContractorFirst(ticket, assignment) ==
    updateStatus([ticket EXCEPT !.assignedTo = assignment],
                 "assigned",
                 "Assigned to " \o (IF assignment.contractor # ""
                                    THEN assignment.contractor
                                    ELSE assignment.department))

\* ticketSchema.methods.assign(assignment, updatedBy); "" is a field the
\* request left out, and the template writes undefined for a missing value
assign(ticket, assignment) ==
    updateStatus([ticket EXCEPT !.assignedTo = assignment],
                 "assigned",
                 "Assigned to " \o (IF assignment.department # ""
                                    THEN assignment.department
                                    ELSE IF assignment.contractor # ""
                                    THEN assignment.contractor
                                    ELSE "undefined"))

\* ticketSchema.methods.syncWithExternal(system, externalId, status)
syncWithExternal(ticket, system, externalId) ==
    [ticket EXCEPT !.externalSystems =
        {e \in @ : e.system # system}
            \cup {[system |-> system, externalId |-> externalId,
                   syncStatus |-> "synced"]}]

\* POST /api/hazards handled with no other request in flight.
ReportHazard(o, sev) ==
    /\ Cardinality(Ids(hazards)) < MaxHazards
    /\ LET h == NewId(hazards)
           hash == generateHash(o[1], o[2], o[3], now)
           existingHazard == findOneByHash(hash)
           hazard == [hash |-> hash, severity |-> sev, status |-> "active",
                      tickets |-> IF sev = "critical"
                                  THEN <<NewId(tickets)>> ELSE <<>>,
                      feedback |-> NoFeedback]
       IN  IF existingHazard # <<>>
           THEN /\ res' = [route |-> "postHazard", id |-> existingHazard[1],
                           status |-> 409]
                /\ UNCHANGED <<hazards, alerts, tickets>>
           ELSE /\ hazards' = Insert(hazards, hazard)
                /\ alerts' = IF sev \in {"high", "critical"}
                             THEN Insert(alerts, createHazardAlert("system", hazard, h))
                             ELSE alerts
                /\ tickets' = IF sev = "critical"
                              THEN Insert(tickets, createFromHazard(hazard, h, NoBody))
                              ELSE tickets
                /\ res' = [route |-> "postHazard", id |-> h, status |-> 201]
    /\ UNCHANGED <<now, req, fp, sla, rel, mg, risk, dup, gone>>

\* POST /api/tickets/from-hazard/:hazardId
PostTicketFromHazard(h, body) ==
    /\ Cardinality(Ids(tickets)) < MaxTickets
    /\ IF h \notin Ids(hazards)
       THEN /\ res' = [route |-> "fromHazard", id |-> h, status |-> 404]
            /\ UNCHANGED <<hazards, tickets>>
       ELSE /\ tickets' = Insert(tickets, createFromHazard(hazards[h], h, body))
            /\ hazards' = [hazards EXCEPT ![h].tickets = Append(@, NewId(tickets))]
            /\ res' = [route |-> "fromHazard", id |-> NewId(tickets), status |-> 201]
    /\ UNCHANGED <<now, alerts, req, fp, sla, rel, mg, risk, dup, gone>>

\* delete updates._id; delete updates.ticketId
deleteIdAndTicketId(updates) == [updates EXCEPT !.has = @ \ {"_id", "ticketId"}]

\* PUT /api/tickets/:id: findByIdAndUpdate with the body's fields.
PutTicket(t, updates) ==
    /\ IF t \notin Ids(tickets)
       THEN /\ res' = [route |-> "put", id |-> t, status |-> 404]
            /\ UNCHANGED tickets
       ELSE /\ tickets' = [tickets EXCEPT ![t] = Spread(@, deleteIdAndTicketId(updates))]
            /\ res' = [route |-> "put", id |-> t, status |-> 200]
    /\ UNCHANGED <<now, hazards, alerts, req, fp, sla, rel, mg, risk, dup, gone>>

\* POST /api/tickets/:id/assign.  assign() calls save() inside updateStatus
\* and again on return, while the first save is in flight: the first save
\* stores the ticket, and the second is rejected (parallelSave) by a Mongoose
\* that refuses parallel saves of one document, the route then passing the
\* error to next().
AssignTicket(t, assignment, parallelSave) ==
    /\ IF t \notin Ids(tickets)
       THEN /\ res' = [route |-> "assign", id |-> t, status |-> 404]
            /\ UNCHANGED tickets
       ELSE /\ Len(tickets[t].timeline) < MaxTimeline
            /\ tickets' = [tickets EXCEPT ![t] = assign(@, assignment)]
            /\ res' = [route |-> "assign", id |-> t,
                       status |-> IF parallelSave
                                  THEN errorHandler("ParallelSaveError")
                                  ELSE 200]
    /\ UNCHANGED <<now, hazards, alerts, req, fp, sla, rel, mg, risk, dup, gone>>

\* POST /api/tickets/:id/update-status
UpdateTicketStatus(t, status) ==
    /\ IF status \notin TicketStatuses
       THEN /\ res' = [route |-> "updateStatus", id |-> t, status |-> 400]
            /\ UNCHANGED tickets
       ELSE IF t \notin Ids(tickets)
       THEN /\ res' = [route |-> "updateStatus", id |-> t, status |-> 404]
            /\ UNCHANGED tickets
       ELSE /\ Len(tickets[t].timeline) < MaxTimeline
            /\ tickets' = [tickets EXCEPT ![t] = updateStatus(@, status, "")]
            /\ res' = [route |-> "updateStatus", id |-> t, status |-> 200]
    /\ UNCHANGED <<now, hazards, alerts, req, fp, sla, rel, mg, risk, dup, gone>>

\* POST /api/tickets/:id/feedback
TicketFeedback(t, rating) ==
    /\ IF rating # 0 /\ (rating < 1 \/ rating > 5)
       THEN /\ res' = [route |-> "feedback", id |-> t, status |-> 400]
            /\ UNCHANGED tickets
       ELSE IF t \notin Ids(tickets)
       THEN /\ res' = [route |-> "feedback", id |-> t, status |-> 404]
            /\ UNCHANGED tickets
       ELSE /\ tickets' = [tickets EXCEPT ![t].feedback = Some(rating)]
            /\ res' = [route |-> "feedback", id |-> t, status |-> 200]
    /\ UNCHANGED <<now, hazards, alerts, req, fp, sla, rel, mg, risk, dup, gone>>

\* POST /api/tickets/:id/sync, the external system answering with an id
SyncTicket(t, system) ==
    /\ IF t \notin Ids(tickets)
       THEN /\ res' = [route |-> "sync", id |-> t, status |-> 404]
            /\ UNCHANGED tickets
       ELSE /\ tickets' = [tickets EXCEPT ![t] = syncWithExternal(@, system, "ext-1")]
            /\ res' = [route |-> "sync", id |-> t, status |-> 200]
    /\ UNCHANGED <<now, hazards, alerts, req, fp, sla, rel, mg, risk, dup, gone>>

TicketIds == 1 .. MaxTickets

TicketNext ==
    \/ \E o \in Observations, sev \in ReportedSeverities : ReportHazard(o, sev)
    \/ \E h \in 1 .. MaxHazards, body \in FromHazardBodies : PostTicketFromHazard(h, body)
    \/ \E t \in TicketIds, updates \in PutBodies : PutTicket(t, updates)
    \/ \E t \in TicketIds, assignment \in Assignments, parallelSave \in BOOLEAN :
           AssignTicket(t, assignment, parallelSave)
    \/ \E t \in TicketIds, status \in TicketStatuses \cup {"closed"} :
           UpdateTicketStatus(t, status)
    \/ \E t \in TicketIds, rating \in {4, 6} : TicketFeedback(t, rating)
    \/ \E t \in TicketIds, system \in ExternalSystems : SyncTicket(t, system)

SpecTicket == Init /\ [][TicketNext]_vars

\* Bodies of POST /api/tickets/:id/assign: every field is optional.
AssignBodies ==
    Assignments \cup {[department |-> "roads", contractor |-> "acme"],
                      [department |-> "", contractor |-> ""]}

AssignNext ==
    \/ \E sev \in {"low", "high"} : ReportHazard(<<"pothole", 772090, 286139>>, sev)
    \/ \E h \in 1 .. MaxHazards : PostTicketFromHazard(h, NoBody)
    \/ \E t \in TicketIds, status \in {"in_progress", "completed"} :
           UpdateTicketStatus(t, status)
    \/ \E t \in TicketIds, assignment \in AssignBodies, parallelSave \in BOOLEAN :
           AssignTicket(t, assignment, parallelSave)

SpecAssign == Init /\ [][AssignNext]_vars

-----------------------------------------------------------------------------
(* The create routes, with the ticket identifiers and the failures of the
   collaborators *)

\* Math.random().toString(36).substr(2, 5), as a number.
Randoms == {0, 1}

\* Ticket.generateTicketId() at time timestamp; the digits are written in
\* base 10 where the code writes them in base 36.
generateTicketId(timestamp, random) ==
    "HD-" \o NatStr(timestamp) \o "-" \o NatStr(random)

\* Ticket.createFromHazard with the ticketId it generates, which a ticketId
\* in additionalData replaces.
createFromHazardWithId(hazard, hazardId, ticketId, additionalData) ==
    LET ticket == createFromHazard(hazard, hazardId, additionalData)
    IN  [k \in DOMAIN ticket \cup {"ticketId"} |->
            IF k # "ticketId" THEN ticket[k]
            ELSE IF "ticketId" \in additionalData.has THEN additionalData.ticketId
            ELSE ticketId]

NoTicketIdIndex(ticketId) == FALSE

\* The unique index on Ticket.ticketId: an insert of a ticketId that is
\* already stored is refused with the duplicate key error 11000.
DuplicateTicketId(ticketId) ==
    \E t \in Ids(tickets) : tickets[t].ticketId = ticketId

alertWorthyCritical(severity) == severity = "critical"

\* ['high', 'critical'].includes(hazard.severity)
alertWorthy(severity) == severity \in {"high", "critical"}

\* What can fail inside POST /api/hazards: processImage, the alert block,
\* ticket.save() and the hazard.save() that stores the ticket reference.
HazardCollaborators == {"image", "alert", "ticket", "link"}

\* POST /api/hazards handled in one piece; failing are the collaborators
\* that throw when they are called, and each catch block logs and goes on.
PostHazard(o, sev, image, failing, random) ==
    /\ Cardinality(Ids(hazards)) < MaxHazards
    /\ sev = "critical" => Cardinality(Ids(tickets)) < MaxCreated
    /\ LET h == NewId(hazards)
           t == NewId(tickets)
           hash == generateHash(o[1], o[2], o[3], now)
           existingHazard == findOneByHash(hash)
           hazard == [hash |-> hash, severity |-> sev, status |-> "active",
                      tickets |-> <<>>, feedback |-> NoFeedback]
           ticket == createFromHazardWithId(hazard, h, generateTicketId(now, random),
                                            NoBody)
           imageFailed == image /\ "image" \in failing
           alertTried == alertWorthy(sev)
           alertFailed == alertTried /\ "alert" \in failing
           ticketTried == sev = "critical"
           ticketFailed == /\ ticketTried
                           /\ \/ "ticket" \in failing
                              \/ DuplicateTicketId(ticket.ticketId)
           linkFailed == ticketTried /\ ~ticketFailed /\ "link" \in failing
       IN  IF existingHazard # <<>>
           THEN /\ res' = [route |-> "postHazard", id |-> existingHazard[1],
                           status |-> 409, failed |-> {}]
                /\ UNCHANGED <<hazards, alerts, tickets>>
           ELSE /\ hazards' = Insert(hazards,
                                 IF ticketTried /\ ~ticketFailed /\ ~linkFailed
                                 THEN [hazard EXCEPT !.tickets = <<t>>]
                                 ELSE hazard)
                /\ alerts' = IF alertTried /\ ~alertFailed
                             THEN Insert(alerts, createHazardAlert("system", hazard, h))
                             ELSE alerts
                /\ tickets' = IF ticketTried /\ ~ticketFailed
                              THEN Insert(tickets, ticket)
                              ELSE tickets
                /\ res' = [route |-> "postHazard", id |-> h, status |-> 201,
                           failed |-> {c \in HazardCollaborators :
                                         \/ c = "image" /\ imageFailed
                                         \/ c = "alert" /\ alertFailed
                                         \/ c = "ticket" /\ ticketFailed
                                         \/ c = "link" /\ linkFailed}]
    /\ UNCHANGED <<now, req, fp, sla, rel, mg, risk, dup, gone>>

\* Bodies of POST /api/tickets/from-hazard/:hazardId that may name a
\* ticketId.
FromHazardIdBodies ==
    {NoBody,
     [has |-> {"ticketId"}, priority |-> "medium", sla |-> NoSla,
      status |-> "submitted", ticketId |-> generateTicketId(0, 0)]}

\* Bodies of PUT /api/tickets/:id that name a ticketId.
PutIdBodies ==
    {[has |-> {"ticketId", "priority"}, priority |-> "low", sla |-> NoSla,
      status |-> "submitted", ticketId |-> id] :
        id \in {generateTicketId(0, 1), "HD-CUSTOM"}}

\* POST /api/tickets/from-hazard/:hazardId, the ticket carrying its ticketId:
\* a duplicate key error of ticket.save() goes to next(error).
PostTicketFromHazardWithId(h, body, random) ==
    /\ Cardinality(Ids(tickets)) < MaxCreated
    /\ IF h \notin Ids(hazards)
       THEN /\ res' = [route |-> "fromHazard", id |-> h, status |-> 404]
            /\ UNCHANGED <<hazards, tickets>>
       ELSE LET ticket == createFromHazardWithId(hazards[h], h,
                              generateTicketId(now, random), body)
            IN  IF DuplicateTicketId(ticket.ticketId)
                THEN /\ res' = [route |-> "fromHazard", id |-> h,
                                status |-> errorHandler("E11000")]
                     /\ UNCHANGED <<hazards, tickets>>
                ELSE /\ tickets' = Insert(tickets, ticket)
                     /\ hazards' = [hazards EXCEPT ![h].tickets =
                                                       Append(@, NewId(tickets))]
                     /\ res' = [route |-> "fromHazard", id |-> NewId(tickets),
                                status |-> 201]
    /\ UNCHANGED <<now, alerts, req, fp, sla, rel, mg, risk, dup, gone>>

\* POST /api/tickets: validateTicket strips a ticketId from the body, so the
\* required ticketId is missing when ticket.save() validates, before the
\* pre('save') hook that would generate it; the error goes to next(error)
\* and the external sync is not reached.
PostTicket(priority, syncFails) ==
    /\ res' = [route |-> "postTicket", id |-> 0,
               status |-> errorHandler("ValidationError"), failed |-> {}]
    /\ UNCHANGED <<now, hazards, alerts, tickets, req, fp, sla, rel, mg, risk, dup, gone>>

-----------------------------------------------------------------------------
(* The hazard routes that change a stored hazard *)

\* Bodies of PUT /api/hazards/:id: the fields named and their values.
HazardPutBodies ==
    {[has |-> {"status"}, status |-> st, severity |-> "low", hash |-> ""] :
        st \in HazardStatuses \cup {"closed"}}
    \cup
    {[has |-> {"severity", "hash"}, status |-> "active", severity |-> "high",
      hash |-> "md5(other)"]}

\* delete updates.hash; delete updates._id
deleteHashAndId(updates) == [updates EXCEPT !.has = @ \ {"hash", "_id"}]

\* POST /api/hazards/:id/feedback
HazardFeedback(h, type) ==
    /\ IF type \notin FeedbackTypes
       THEN /\ res' = [route |-> "hazardFeedback", id |-> h, status |-> 400]
            /\ UNCHANGED hazards
       ELSE IF h \notin Ids(hazards)
       THEN /\ res' = [route |-> "hazardFeedback", id |-> h, status |-> 404]
            /\ UNCHANGED hazards
       ELSE /\ Len(hazards[h].feedback.reports) < MaxReports
            /\ hazards' =
                 [hazards EXCEPT
                    ![h].feedback.reports = Append(@, type),
                    ![h].feedback.upvotes =
                        IF type \in {"confirmed", "still_exists"} THEN @ + 1 ELSE @,
                    ![h].feedback.downvotes =
                        IF type = "false_positive" THEN @ + 1 ELSE @,
                    ![h].status =
                        IF type = "fixed" THEN "fixed"
                        ELSE IF type = "false_positive" THEN "false_positive"
                        ELSE @]
            /\ res' = [route |-> "hazardFeedback", id |-> h, status |-> 200]
    /\ UNCHANGED <<now, alerts, tickets, req, fp, sla, rel, mg, risk, dup, gone>>

\* POST /api/hazards/:id/vote
HazardVote(h, vote) ==
    /\ IF vote \notin {"up", "down"}
       THEN /\ res' = [route |-> "vote", id |-> h, status |-> 400]
            /\ UNCHANGED hazards
       ELSE IF h \notin Ids(hazards)
       THEN /\ res' = [route |-> "vote", id |-> h, status |-> 404]
            /\ UNCHANGED hazards
       ELSE /\ hazards[h].feedback.upvotes + hazards[h].feedback.downvotes < MaxVotes
            /\ hazards' =
                 [hazards EXCEPT
                    ![h].feedback.upvotes = IF vote = "up" THEN @ + 1 ELSE @,
                    ![h].feedback.downvotes = IF vote = "up" THEN @ ELSE @ + 1]
            /\ res' = [route |-> "vote", id |-> h, status |-> 200]
    /\ UNCHANGED <<now, alerts, tickets, req, fp, sla, rel, mg, risk, dup, gone>>

\* PUT /api/hazards/:id: findByIdAndUpdate with the validators run.
PutHazard(h, updates) ==
    /\ LET kept == deleteHashAndId(updates)
       IN  IF "status" \in kept.has /\ kept.status \notin HazardStatuses
           THEN /\ res' = [route |-> "putHazard", id |-> h,
                           status |-> errorHandler("ValidationError")]
                /\ UNCHANGED hazards
           ELSE IF h \notin Ids(hazards)
           THEN /\ res' = [route |-> "putHazard", id |-> h, status |-> 404]
                /\ UNCHANGED hazards
           ELSE /\ hazards' = [hazards EXCEPT ![h] = Spread(@, kept)]
                /\ res' = [route |-> "putHazard", id |-> h, status |-> 200]
    /\ UNCHANGED <<now, alerts, tickets, req, fp, sla, rel, mg, risk, dup, gone>>

HazardIds == 1 .. MaxHazards

HazardNext ==
    \/ \E o \in Observations, sev \in ReportedSeverities : ReportHazard(o, sev)
    \/ \E h \in HazardIds, type \in FeedbackTypes \cup {"spam"} : HazardFeedback(h, type)
    \/ \E h \in HazardIds, vote \in {"up", "down", "sideways"} : HazardVote(h, vote)
    \/ \E h \in HazardIds, updates \in HazardPutBodies : PutHazard(h, updates)

SpecHazard == Init /\ [][HazardNext]_vars

-----------------------------------------------------------------------------
(* The vote and feedback routes with several requests in flight *)

\* What one connection is doing: idle, or between the await of
\* Hazard.findById and the await of hazard.save() with its own copy of the
\* document; up and down count the connection's answered votes per hazard.
IdleCall ==
    [pc |-> "idle", route |-> "", id |-> 0, input |-> "", feedback |-> NoFeedback,
     status |-> "", up |-> [h \in HazardIds |-> 0], down |-> [h \in HazardIds |-> 0]]

\* The inputs of the two routes that count a vote.
VoteCalls ==
    {<<"vote", "up">>, <<"vote", "down">>,
     <<"hazardFeedback", "confirmed">>, <<"hazardFeedback", "false_positive">>}

RaisesUp(input) == input \in {"up", "confirmed", "still_exists"}

RaisesDown(input) == input \in {"down", "false_positive"}

CallsInFlight == Cardinality({r \in Requests : req[r].pc # "idle"})

RECURSIVE VotesCast(_, _, _)
VotesCast(n, h, way) ==
    IF n = 0 THEN 0 ELSE req[n][way][h] + VotesCast(n - 1, h, way)

\* Up to the first await of both routes: the input is validated, the hazard
\* is read and the counters of the request's own copy are raised.
VoteFindById(r, h, call) ==
    /\ req[r].pc = "idle"
    /\ IF h \notin Ids(hazards)
       THEN /\ res' = [route |-> call[1], id |-> h, status |-> 404]
            /\ UNCHANGED req
       ELSE /\ VotesCast(MaxRequests, h, "up") + VotesCast(MaxRequests, h, "down")
                 + CallsInFlight < MaxVotes
            /\ req' = [req EXCEPT ![r] =
                 [@ EXCEPT !.pc = "found", !.route = call[1], !.id = h,
                           !.input = call[2],
                           !.feedback =
                               [hazards[h].feedback EXCEPT
                                  !.upvotes = IF RaisesUp(call[2]) THEN @ + 1 ELSE @,
                                  !.downvotes = IF RaisesDown(call[2]) THEN @ + 1 ELSE @],
                           !.status = IF call[2] = "false_positive"
                                      THEN "false_positive" ELSE hazards[h].status]]
            /\ UNCHANGED res
    /\ UNCHANGED <<now, hazards, alerts, tickets, fp, sla, rel, mg, risk, dup, gone>>

\* await hazard.save(): the paths the request changed are written with the
\* values of its own copy, a pushed report is appended to the stored list.
VoteSave(r) ==
    /\ req[r].pc = "found"
    /\ LET h == req[r].id
           input == req[r].input
       IN  /\ hazards' =
                [hazards EXCEPT
                   ![h].feedback.upvotes =
                       IF RaisesUp(input) THEN req[r].feedback.upvotes ELSE @,
                   ![h].feedback.downvotes =
                       IF RaisesDown(input) THEN req[r].feedback.downvotes ELSE @,
                   ![h].feedback.reports =
                       IF req[r].route = "hazardFeedback" THEN Append(@, input) ELSE @,
                   ![h].status =
                       IF input = "false_positive" THEN req[r].status ELSE @]
           /\ req' = [req EXCEPT ![r] =
                [@ EXCEPT !.pc = "idle",
                          !.up[h] = IF RaisesUp(input) THEN @ + 1 ELSE @,
                          !.down[h] = IF RaisesDown(input) THEN @ + 1 ELSE @]]
           /\ res' = [route |-> req[r].route, id |-> h, status |-> 200]
    /\ UNCHANGED <<now, alerts, tickets, fp, sla, rel, mg, risk, dup, gone>>

VoteInit ==
    /\ now = 0
    /\ gone = {}
    /\ hazards = <<>>
    /\ alerts = <<>>
    /\ tickets = <<>>
    /\ req = [r \in Requests |-> IdleCall]
    /\ res = NoResponse
    /\ fp = <<>>
    /\ sla = <<>>
    /\ rel = <<>>
    /\ mg = <<>>
    /\ risk = <<>>
    /\ dup = <<>>

VoteNext ==
    \/ \E sev \in {"low", "high"} : ReportHazard(<<"pothole", 772090, 286139>>, sev)
    \/ \E r \in Requests, h \in HazardIds, call \in VoteCalls : VoteFindById(r, h, call)
    \/ \E r \in Requests : VoteSave(r)

SpecVote == VoteInit /\ [][VoteNext]_vars

-----------------------------------------------------------------------------
(* Hazards, their tickets and the deletion of a hazard *)

\* mockUsers: the demo user and the admin user
MockUsers == {"user1", "admin1"}

isAdmin(user) == user = "admin1"

\* DELETE /api/hazards/:id as req.user: Hazard.findByIdAndDelete removes the
\* hazard document and nothing else.
DeleteHazard(user, h) ==
    /\ IF ~isAdmin(user)
       THEN /\ res' = [route |-> "deleteHazard", id |-> h, status |-> 403]
            /\ UNCHANGED <<hazards, gone>>
       ELSE IF h \notin Ids(hazards)
       THEN /\ res' = [route |-> "deleteHazard", id |-> h, status |-> 404]
            /\ UNCHANGED <<hazards, gone>>
       ELSE /\ hazards' = [i \in Ids(hazards) \ {h} |-> hazards[i]]
            /\ gone' = gone \cup {h}
            /\ res' = [route |-> "deleteHazard", id |-> h, status |-> 200]
    /\ UNCHANGED <<now, alerts, tickets, req, fp, sla, rel, mg, risk, dup>>

\* POST /api/hazards: the new hazard gets an _id no document had before.
ReportNewHazard(o, sev) ==
    /\ NewId(hazards) \notin gone \cup Ids(hazards)
    /\ ReportHazard(o, sev)

DeleteNext ==
    \/ \E o \in Observations, sev \in ReportedSeverities : ReportNewHazard(o, sev)
    \/ \E h \in HazardIds : PostTicketFromHazard(h, NoBody)
    \/ \E user \in MockUsers, h \in HazardIds : DeleteHazard(user, h)
    \/ Tick

SpecDelete == Init /\ [][DeleteNext]_vars

-----------------------------------------------------------------------------
(* Alerts: the model methods, the alert routes and the notification service *)

\* The users of the alert routes, and those that create alerts.
AlertUsers == {"user1", "admin1"}
AlertOwners == {"user1"}
ActionsTaken == {"route_changed"}

\* The channels delivery.channels accepts.
DeliveryChannels == {"push", "sms", "voice", "in_app", "bluetooth"}

\* The channels whose send succeeded, for a notification sent through push
\* and email.
NotifyOutcomes == {{}, {"push"}, {"push", "email"}}

\* new Alert(alertData) at time at: the fields of the body and the defaults
\* of the schema for delivery, interaction and expiresAt.
newAlert(alertData, at) ==
    [userId |-> alertData.userId,
     delivery |-> [status |-> "pending", channels |-> {}],
     interaction |-> [acknowledged |-> FALSE, acknowledgedAt |-> Undefined,
                      dismissed |-> FALSE, dismissedAt |-> Undefined,
                      actionTaken |-> Undefined],
     expiresAt |-> at + Hours(24)]

isRelevantUnexpiring(alert, at) ==
    /\ ~alert.interaction.dismissed
    /\ alert.delivery.status # "failed"

\* alertSchema.methods.isRelevant, new Date() being at
isRelevant(alert, at) ==
    /\ alert.expiresAt > at
    /\ ~alert.interaction.dismissed
    /\ alert.delivery.status # "failed"

\* alertSchema.methods.markDelivered(channel)
markDelivered(alert, channel) ==
    [alert EXCEPT !.delivery.status = "delivered",
                  !.delivery.channels = @ \cup {channel}]

\* alertSchema.methods.acknowledge(action)
acknowledge(alert, action, at) ==
    [alert EXCEPT !.interaction.acknowledged = TRUE,
                  !.interaction.acknowledgedAt = Some(at),
                  !.interaction.actionTaken = Some(action)]

dismissDateOnly(alert, at) ==
    [alert EXCEPT !.interaction.dismissedAt = Some(at)]

\* alertSchema.methods.dismiss()
dismiss(alert, at) ==
    [alert EXCEPT !.interaction.dismissed = TRUE,
                  !.interaction.dismissedAt = Some(at)]

\* The document sendMultiChannelNotification saves, successful being the
\* channels whose send returned true.
sendMultiChannelNotification(alert, successful) ==
    IF successful # {}
    THEN [alert EXCEPT !.delivery.status = "delivered",
                       !.delivery.channels = successful]
    ELSE [alert EXCEPT !.delivery.status = "failed"]

\* scheduleNotification(alert, scheduledTime)
scheduleNotification(alert) ==
    [alert EXCEPT !.delivery.status = "pending"]

\* The update of cancelScheduledNotification(alertId)
cancelScheduledNotification(alert) ==
    [alert EXCEPT !.delivery.status = "cancelled"]

\* An alert read through isRelevant: its delivery status, its dismissed
\* flag and its expiry, and the time of the read.
RelStatuses == {"pending", "sent", "delivered", "failed", "dismissed", "cancelled"}
RelExpiries == {Hours(24), Hours(36)}
RelReadTimes == {0, Hours(24), Hours(36), Hours(48)}

RelInit ==
    /\ now = 0
    /\ gone = {}
    /\ hazards = <<>>
    /\ alerts = <<>>
    /\ tickets = <<>>
    /\ req = [r \in Requests |-> IdleRequest]
    /\ res = NoResponse
    /\ fp = <<>>
    /\ sla = <<>>
    /\ mg = <<>>
    /\ risk = <<>>
    /\ dup = <<>>
    /\ rel \in [status : RelStatuses, dismissed : BOOLEAN, expiresAt : RelExpiries,
                 at : RelReadTimes, relevant : {FALSE}, pc : {"input"}]

\* alert.isRelevant() on an alert with these fields
ReadRelevance ==
    /\ rel.pc = "input"
    /\ rel' = [rel EXCEPT
                  !.relevant =
                      isRelevant([newAlert([userId |-> "user1"], 0) EXCEPT
                                     !.expiresAt = rel.expiresAt,
                                     !.interaction.dismissed = rel.dismissed,
                                     !.delivery.status = rel.status],
                                 rel.at),
                  !.pc = "read"]
    /\ UNCHANGED <<now, hazards, alerts, tickets, req, res, fp, sla, mg, risk, dup, gone>>

RelNext == ReadRelevance

SpecRelevance == RelInit /\ [][RelNext]_vars

AlertIds == 1 .. MaxAlerts

PostAlertUncaught(user, enabled, voiceFails) ==
    /\ Cardinality(Ids(alerts)) < MaxAlerts
    /\ alerts' = Insert(alerts, newAlert([userId |-> user, enabled |-> enabled], now))
    /\ res' = [route |-> "postAlert", id |-> NewId(alerts),
               status |-> IF enabled /\ voiceFails THEN errorHandler("Error") ELSE 201,
               failed |-> IF enabled /\ voiceFails THEN {"voice"} ELSE {}]
    /\ UNCHANGED <<now, hazards, tickets, req, fp, sla, rel, mg, risk, dup, gone>>

\* POST /api/alerts: the alert is saved, then the voice alert is tried when
\* it is enabled; a voice alert that fails is logged.
PostAlert(user, enabled, voiceFails) ==
    /\ Cardinality(Ids(alerts)) < MaxAlerts
    /\ alerts' = Insert(alerts, newAlert([userId |-> user, enabled |-> enabled], now))
    /\ res' = [route |-> "postAlert", id |-> NewId(alerts), status |-> 201,
               failed |-> IF enabled /\ voiceFails THEN {"voice"} ELSE {}]
    /\ UNCHANGED <<now, hazards, tickets, req, fp, sla, rel, mg, risk, dup, gone>>

findOneAlertById(a, user) == a \in Ids(alerts)

\* Alert.findOne({ _id, userId }) of the alert routes.
findOneAlert(a, user) == a \in Ids(alerts) /\ alerts[a].userId = user

\* POST /api/alerts/:id/acknowledge
AcknowledgeAlert(a, user, action) ==
    /\ IF ~findOneAlert(a, user)
       THEN /\ res' = [route |-> "acknowledge", id |-> a, status |-> 404]
            /\ UNCHANGED alerts
       ELSE /\ alerts' = [alerts EXCEPT ![a] = acknowledge(@, action, now)]
            /\ res' = [route |-> "acknowledge", id |-> a, status |-> 200]
    /\ UNCHANGED <<now, hazards, tickets, req, fp, sla, rel, mg, risk, dup, gone>>

\* POST /api/alerts/:id/dismiss
DismissAlert(a, user) ==
    /\ IF ~findOneAlert(a, user)
       THEN /\ res' = [route |-> "dismiss", id |-> a, status |-> 404]
            /\ UNCHANGED alerts
       ELSE /\ alerts' = [alerts EXCEPT ![a] = dismiss(@, now)]
            /\ res' = [route |-> "dismiss", id |-> a, status |-> 200]
    /\ UNCHANGED <<now, hazards, tickets, req, fp, sla, rel, mg, risk, dup, gone>>

\* POST /api/alerts/bulk-dismiss: Alert.updateMany on the user's alerts
\* among alertIds.
BulkDismissAlerts(alertIds, user) ==
    /\ IF alertIds = {}
       THEN /\ res' = [route |-> "bulkDismiss", id |-> 0, status |-> 400]
            /\ UNCHANGED alerts
       ELSE /\ alerts' = [a \in Ids(alerts) |->
                            IF a \in alertIds /\ alerts[a].userId = user
                            THEN [alerts[a] EXCEPT
                                     !.interaction.dismissed = TRUE,
                                     !.interaction.dismissedAt = Some(now)]
                            ELSE alerts[a]]
            /\ res' = [route |-> "bulkDismiss", id |-> 0, status |-> 200]
    /\ UNCHANGED <<now, hazards, tickets, req, fp, sla, rel, mg, risk, dup, gone>>

\* alert.markDelivered(channel) on a stored alert
MarkDelivered(a, channel) ==
    /\ a \in Ids(alerts)
    /\ alerts' = [alerts EXCEPT ![a] = markDelivered(@, channel)]
    /\ UNCHANGED <<now, hazards, tickets, req, res, fp, sla, rel, mg, risk, dup, gone>>

\* sendMultiChannelNotification on a stored alert: alert.save() validates
\* delivery.channels and its error is caught, the alert staying as stored.
SendMultiChannelNotification(a, successful) ==
    /\ a \in Ids(alerts)
    /\ LET saved == sendMultiChannelNotification(alerts[a], successful)
       IN  IF saved.delivery.channels \subseteq DeliveryChannels
           THEN alerts' = [alerts EXCEPT ![a] = saved]
           ELSE UNCHANGED alerts
    /\ UNCHANGED <<now, hazards, tickets, req, res, fp, sla, rel, mg, risk, dup, gone>>

\* scheduleNotification on a stored alert
ScheduleNotification(a) ==
    /\ a \in Ids(alerts)
    /\ alerts' = [alerts EXCEPT ![a] = scheduleNotification(@)]
    /\ UNCHANGED <<now, hazards, tickets, req, res, fp, sla, rel, mg, risk, dup, gone>>

\* cancelScheduledNotification(alertId): findByIdAndUpdate, no validators
CancelScheduledNotification(a) ==
    /\ a \in Ids(alerts)
    /\ alerts' = [alerts EXCEPT ![a] = cancelScheduledNotification(@)]
    /\ UNCHANGED <<now, hazards, tickets, req, res, fp, sla, rel, mg, risk, dup, gone>>

\* Half a day passes.
AlertTick ==
    /\ now < MaxAlertTicks * Hours(12)
    /\ now' = now + Hours(12)
    /\ UNCHANGED <<hazards, alerts, tickets, req, res, fp, sla, rel, mg, risk, dup, gone>>

AlertNext ==
    \/ \E user \in AlertOwners, enabled, voiceFails \in BOOLEAN :
           PostAlert(user, enabled, voiceFails)
    \/ \E a \in AlertIds, user \in AlertUsers, action \in ActionsTaken :
           AcknowledgeAlert(a, user, action)
    \/ \E a \in AlertIds, user \in AlertUsers : DismissAlert(a, user)
    \/ \E alertIds \in SUBSET AlertIds, user \in AlertUsers :
           BulkDismissAlerts(alertIds, user)
    \/ \E a \in AlertIds : MarkDelivered(a, "push")
    \/ \E a \in AlertIds, successful \in NotifyOutcomes :
           SendMultiChannelNotification(a, successful)
    \/ \E a \in AlertIds : ScheduleNotification(a)
    \/ \E a \in AlertIds : CancelScheduledNotification(a)
    \/ AlertTick

SpecAlert == Init /\ [][AlertNext]_vars

\* The channels arrays sendMultiChannelNotification is called with: the
\* default and one with email.
NotifyRequests == {{"push", "voice"}, {"push", "email"}, {"email"}}

\* sendMultiChannelNotification(alert, user, channels) on a stored alert,
\* successful being the requested channels whose send returned true; res
\* keeps what was requested and what succeeded.
NotifyAlert(a, channels, successful) ==
    /\ a \in Ids(alerts)
    /\ successful \subseteq channels
    /\ LET saved == sendMultiChannelNotification(alerts[a], successful)
       IN  IF saved.delivery.channels \subseteq DeliveryChannels
           THEN alerts' = [alerts EXCEPT ![a] = saved]
           ELSE UNCHANGED alerts
    /\ res' = [route |-> "notify", id |-> a, status |-> 0,
               channels |-> channels, successful |-> successful]
    /\ UNCHANGED <<now, hazards, tickets, req, fp, sla, rel, mg, risk, dup, gone>>

NotifyNext ==
    \/ \E user \in AlertOwners, enabled, voiceFails \in BOOLEAN :
           PostAlert(user, enabled, voiceFails)
    \/ \E a \in AlertIds, channels \in NotifyRequests :
           \E successful \in SUBSET channels : NotifyAlert(a, channels, successful)
    \/ \E a \in AlertIds, user \in AlertOwners : DismissAlert(a, user)
    \/ AlertTick

SpecNotify == Init /\ [][NotifyNext]_vars

\* GET /api/alerts/:id: the alert with this _id and the requester's userId.
GetAlert(a, user) ==
    /\ IF ~findOneAlert(a, user)
       THEN res' = [route |-> "getAlert", id |-> a, status |-> 404, data |-> {}]
       ELSE res' = [route |-> "getAlert", id |-> a, status |-> 200, data |-> {a}]
    /\ UNCHANGED <<now, hazards, alerts, tickets, req, fp, sla, rel, mg, risk, dup, gone>>

\* The routes that read or change one user's alerts, with alerts of both
\* users stored.
OwnNext ==
    \/ \E user \in AlertUsers : PostAlert(user, FALSE, FALSE)
    \/ \E a \in AlertIds, user \in AlertUsers : GetAlert(a, user)
    \/ \E a \in AlertIds, user \in AlertUsers, action \in ActionsTaken :
           AcknowledgeAlert(a, user, action)
    \/ \E a \in AlertIds, user \in AlertUsers : DismissAlert(a, user)
    \/ \E alertIds \in SUBSET AlertIds, user \in AlertUsers :
           BulkDismissAlerts(alertIds, user)
    \/ AlertTick

SpecOwn == Init /\ [][OwnNext]_vars

\* The values of the status parameter of GET /api/alerts; 'active' is the
\* default.
AlertStatusFilters == {"active", "dismissed", "all"}

\* The query of GET /api/alerts without the optional lat/lng, type and
\* priority filters; the page holds every match (limit 20).
alertsQuery(user, status, at) ==
    {a \in Ids(alerts) :
        /\ alerts[a].userId = user
        /\ alerts[a].expiresAt > at
        /\ status = "active" => ~alerts[a].interaction.dismissed
        /\ status = "dismissed" => alerts[a].interaction.dismissed}

\* The query of GET /api/alerts/nearby; near holds the alerts that $near
\* matches.
nearbyQuery(near, at) ==
    {a \in Ids(alerts) \cap near :
        /\ alerts[a].expiresAt > at
        /\ ~alerts[a].interaction.dismissed
        /\ alerts[a].delivery.status \in {"sent", "delivered"}}

\* alertSchema.statics.findActiveForUser(userId), without a location
findActiveForUser(userId, at) ==
    {a \in Ids(alerts) :
        /\ alerts[a].userId = userId
        /\ alerts[a].expiresAt > at
        /\ ~alerts[a].interaction.dismissed
        /\ alerts[a].delivery.status \in {"pending", "sent", "delivered"}}

\* GET /api/alerts
GetAlerts(user, status) ==
    /\ res' = [route |-> "getAlerts", id |-> 0, status |-> 200,
               filter |-> status, data |-> alertsQuery(user, status, now)]
    /\ UNCHANGED <<now, hazards, alerts, tickets, req, fp, sla, rel, mg, risk, dup, gone>>

\* The handler of GET /api/alerts/nearby
GetNearbyAlerts(near) ==
    /\ res' = [route |-> "nearby", id |-> 0, status |-> 200,
               filter |-> "active", data |-> nearbyQuery(near, now)]
    /\ UNCHANGED <<now, hazards, alerts, tickets, req, fp, sla, rel, mg, risk, dup, gone>>

\* Alert.findActiveForUser(userId)
FindActiveForUser(userId) ==
    /\ res' = [route |-> "findActiveForUser", id |-> 0, status |-> 200,
               filter |-> "active", data |-> findActiveForUser(userId, now)]
    /\ UNCHANGED <<now, hazards, alerts, tickets, req, fp, sla, rel, mg, risk, dup, gone>>

AlertQueryNext ==
    \/ AlertNext
    \/ \E user \in AlertUsers, status \in AlertStatusFilters : GetAlerts(user, status)
    \/ \E near \in SUBSET AlertIds : GetNearbyAlerts(near)
    \/ \E userId \in AlertUsers : FindActiveForUser(userId)

SpecAlertQuery == Init /\ [][AlertQueryNext]_vars

-----------------------------------------------------------------------------
(* mergeHazards applied to a group of hazards *)

RECURSIVE Factorial(_)
Factorial(n) == IF n <= 1 THEN 1 ELSE n * Factorial(n - 1)

\* Confidences are integers counting 1/(100 * ConfidenceScale), so that the
\* average of a group of up to MaxGroup confidences given in hundredths is
\* an integer too.
ConfidenceScale == Factorial(MaxGroup)
Hundredths(p) == p * ConfidenceScale

Min(a, b) == IF a < b THEN a ELSE b

SortsBeforeByConfidence(a, b) == b.confidence - a.confidence < 0

\* The comparator of hazards.sort: a negative result, a goes first.
SortsBefore(a, b) ==
    IF a.confidence # b.confidence
    THEN b.confidence - a.confidence < 0
    ELSE a.detectedAt - b.detectedAt < 0

RECURSIVE SortedInsert(_, _)
SortedInsert(sorted, h) ==
    IF sorted = <<>> THEN <<h>>
    ELSE IF SortsBefore(h, Head(sorted)) THEN <<h>> \o sorted
    ELSE <<Head(sorted)>> \o SortedInsert(Tail(sorted), h)

\* Array.prototype.sort with the comparator: stable.
RECURSIVE Sort(_)
Sort(hs) ==
    IF hs = <<>> THEN <<>>
    ELSE SortedInsert(Sort(SubSeq(hs, 1, Len(hs) - 1)), hs[Len(hs)])

RECURSIVE SumConfidence(_)
SumConfidence(hs) ==
    IF hs = <<>> THEN 0 ELSE Head(hs).confidence + SumConfidence(Tail(hs))

severityOrder(severity) ==
    CASE severity = "low" -> 1
      [] severity = "medium" -> 2
      [] severity = "high" -> 3
      [] severity = "critical" -> 4

\* hazards.reduce((highest, h) => ..., 'low'), highest being the
\* accumulator so far
RECURSIVE highestSeverity(_, _)
highestSeverity(hs, highest) ==
    IF hs = <<>> THEN highest
    ELSE highestSeverity(Tail(hs),
                         IF severityOrder(Head(hs).severity) > severityOrder(highest)
                         THEN Head(hs).severity
                         ELSE highest)

\* The severity of the first hazard of the sorted array.
primarySeverity(sorted) == sorted[1].severity

\* merged.severity: the reduce over the hazards, started at 'low'
mergedSeverity(sorted) == highestSeverity(sorted, "low")

mergedConfidenceUncapped(avgConfidence, confidenceBoost) ==
    avgConfidence + confidenceBoost

\* Math.min(1, avgConfidence + confidenceBoost)
mergedConfidence(avgConfidence, confidenceBoost) ==
    Min(Hundredths(100), avgConfidence + confidenceBoost)

\* hazards.reduce((sum, h) => sum + (h.feedback?.upvotes || 0), 0), and the
\* same for downvotes
RECURSIVE SumVotes(_, _)
SumVotes(hs, votes) ==
    IF hs = <<>> THEN 0 ELSE Head(hs).feedback[votes] + SumVotes(Tail(hs), votes)

\* hazards.flatMap(h => h.feedback?.reports || [])
RECURSIVE FlatMapReports(_)
FlatMapReports(hs) ==
    IF hs = <<>> THEN <<>>
    ELSE Head(hs).feedback.reports \o FlatMapReports(Tail(hs))

\* mergeHazards(hazards): null (no value) for no hazard, the hazard itself
\* for one, and the merged hazard for more.  hazards.sort sorts the array in
\* place and returns it, so every later read of hazards reads sorted.
mergeHazards(hs) ==
    IF Len(hs) = 0 THEN <<>>
    ELSE IF Len(hs) = 1 THEN <<hs[1]>>
    ELSE LET sorted == Sort(hs)
             primary == sorted[1]
             avgConfidence == SumConfidence(sorted) \div Len(sorted)
             confidenceBoost == Min(Hundredths(10), Len(sorted) * Hundredths(2))
         IN  <<[primary EXCEPT
                   !.feedback = [upvotes |-> SumVotes(sorted, "upvotes"),
                                 downvotes |-> SumVotes(sorted, "downvotes"),
                                 reports |-> FlatMapReports(sorted)],
                   !.confidence = mergedConfidence(avgConfidence, confidenceBoost),
                   !.severity = mergedSeverity(sorted),
                   !.metadata = [mergedFrom |-> [i \in 1 .. Len(sorted) |-> sorted[i]._id],
                                 mergeCount |-> Len(sorted)]]>>

MergeConfidences == {Hundredths(0), Hundredths(95), Hundredths(100)}
MergeDetectedAts == {0, 1000}

\* The fields of a hazard of a group that vary.
MergeMembers ==
    [confidence : MergeConfidences, detectedAt : MergeDetectedAts,
     severity : Severities]

MergeGroups ==
    UNION {[1 .. n -> MergeMembers] : n \in 0 .. MaxGroup}

\* The hazards of a group: the i-th has _id i, its own location and its own
\* two reports.
WithIds(group) ==
    [i \in 1 .. Len(group) |->
        [_id |-> i, type |-> "pothole", location |-> <<772090 + i, 286139>>,
         confidence |-> group[i].confidence,
         detectedAt |-> group[i].detectedAt, severity |-> group[i].severity,
         feedback |-> [upvotes |-> i, downvotes |-> 1,
                       reports |-> <<10 * i + 1, 10 * i + 2>>],
         metadata |-> [mergedFrom |-> <<>>, mergeCount |-> 0]]]

MergeInit ==
    /\ now = 0
    /\ gone = {}
    /\ hazards = <<>>
    /\ alerts = <<>>
    /\ tickets = <<>>
    /\ req = [r \in Requests |-> IdleRequest]
    /\ res = NoResponse
    /\ fp = <<>>
    /\ sla = <<>>
    /\ rel = <<>>
    /\ \E group \in MergeGroups :
           mg = [input |-> WithIds(group), hazards |-> WithIds(group),
                 merged |-> <<>>, pc |-> "input"]
    /\ risk = <<>>
    /\ dup = <<>>

\* mergeHazards(hazards): the array is sorted in place when it has two or
\* more hazards.
MergeHazards ==
    /\ mg.pc = "input"
    /\ mg' = [mg EXCEPT
                 !.hazards = IF Len(@) >= 2 THEN Sort(@) ELSE @,
                 !.merged = mergeHazards(mg.hazards),
                 !.pc = "merged"]
    /\ UNCHANGED <<now, hazards, alerts, tickets, req, res, fp, sla, rel, risk, dup, gone>>

MergeNext == MergeHazards

SpecMerge == MergeInit /\ [][MergeNext]_vars

-----------------------------------------------------------------------------
(* The risk score: the riskScore virtual and calculateRiskScore *)

\* Confidences and risk scores are integers counting hundredths.
RiskConfidences == {0, 10, 50, 100}

\* severityWeights[severity]
severityWeights(severity) ==
    CASE severity = "low" -> 1
      [] severity = "medium" -> 2
      [] severity = "high" -> 3
      [] severity = "critical" -> 4

\* x || 0.5 on a number: 0 is falsy
OrHalf(confidence) == IF confidence = 0 THEN 50 ELSE confidence

\* hazardSchema.virtual('riskScore'), read on a document
riskScore(this) ==
    LET confidenceWeight == OrHalf(this.confidence)
        feedbackWeight == (this.feedback.upvotes - this.feedback.downvotes) * 10
    IN  severityWeights(this.severity) * confidenceWeight + feedbackWeight

\* calculateRiskScore(hazard); x || 0 on a number is the number
calculateRiskScore(hazard) ==
    LET confidenceWeight == OrHalf(hazard.confidence)
        feedbackWeight == (hazard.feedback.upvotes - hazard.feedback.downvotes) * 10
    IN  severityWeights(hazard.severity) * confidenceWeight + feedbackWeight

RiskInit ==
    /\ now = 0
    /\ gone = {}
    /\ hazards = <<>>
    /\ alerts = <<>>
    /\ tickets = <<>>
    /\ req = [r \in Requests |-> IdleRequest]
    /\ res = NoResponse
    /\ fp = <<>>
    /\ sla = <<>>
    /\ rel = <<>>
    /\ mg = <<>>
    /\ dup = <<>>
    /\ \E severity \in Severities, lower \in RiskConfidences,
          higher \in RiskConfidences, upvotes \in 0 .. MaxVotes,
          downvotes \in 0 .. MaxVotes :
           /\ lower <= higher
           /\ risk = [severity |-> severity, lower |-> lower, higher |-> higher,
                      feedback |-> [upvotes |-> upvotes, downvotes |-> downvotes],
                      virtual |-> <<>>, helper |-> <<>>, pc |-> "input"]

\* The hazard with one of the two confidences.
RiskHazard(confidence) ==
    [severity |-> risk.severity, confidence |-> confidence,
     feedback |-> risk.feedback]

\* Both scores read for the lower and for the higher confidence.
ReadRiskScore ==
    /\ risk.pc = "input"
    /\ risk' = [risk EXCEPT
                   !.virtual = <<riskScore(RiskHazard(risk.lower)),
                                 riskScore(RiskHazard(risk.higher))>>,
                   !.helper = <<calculateRiskScore(RiskHazard(risk.lower)),
                                calculateRiskScore(RiskHazard(risk.higher))>>,
                   !.pc = "read"]
    /\ UNCHANGED <<now, hazards, alerts, tickets, req, res, fp, sla, rel, mg, dup, gone>>

RiskNext == ReadRiskScore

SpecRisk == RiskInit /\ [][RiskNext]_vars

-----------------------------------------------------------------------------
(* areHazardsSimilar and findDuplicates *)

\* The integer square root, by bisection between lo and hi.
RECURSIVE SqrtBetween(_, _, _)
SqrtBetween(n, lo, hi) ==
    IF lo >= hi THEN lo
    ELSE LET mid == (lo + hi + 1) \div 2
         IN  IF mid * mid <= n THEN SqrtBetween(n, mid, hi)
             ELSE SqrtBetween(n, lo, mid - 1)

Sqrt(n) == SqrtBetween(n, 0, 46340)

\* calculateDistance, in centimetres, for points a few hundred metres apart
\* at the latitude of the model's observations (28.6 degrees): there the
\* haversine distance is the length of the flat offset, one coordinate unit
\* (1/10000 degree) being 1112 cm along the meridian (6371 km * pi / 180)
\* and 976 cm along the parallel (times cos 28.6).
calculateDistance(lat1, lng1, lat2, lng2) ==
    LET dLat == (lat2 - lat1) * 1112
        dLng == (lng2 - lng1) * 976
    IN  Sqrt(dLat * dLat + dLng * dLng)

areHazardsSimilarAnyTime(hazard1, hazard2) ==
    /\ hazard1.type = hazard2.type
    /\ calculateDistance(hazard1.lat, hazard1.lng, hazard2.lat, hazard2.lng)
           <= 10000

\* areHazardsSimilar: 0.1 km is 10000 cm
areHazardsSimilar(hazard1, hazard2) ==
    IF hazard1.type # hazard2.type THEN FALSE
    ELSE IF calculateDistance(hazard1.lat, hazard1.lng,
                              hazard2.lat, hazard2.lng) > 10000 THEN FALSE
    ELSE IF Abs(hazard1.detectedAt - hazard2.detectedAt) > 60 * 60 * 1000 THEN FALSE
    ELSE TRUE

\* The elements of hs at the indices of js, in the order of hs, from index j
RECURSIVE Pushed(_, _, _)
Pushed(hs, js, j) ==
    IF j > Len(hs) THEN <<>>
    ELSE (IF j \in js THEN <<hs[j]>> ELSE <<>>) \o Pushed(hs, js, j + 1)

laterSimilarToPrevious(hs, i, processed) ==
    {j \in i + 1 .. Len(hs) :
        j \notin processed /\ areHazardsSimilar(hs[j - 1], hs[j])}

laterSimilarAlsoProcessed(hs, i, processed) ==
    {j \in i + 1 .. Len(hs) : areHazardsSimilar(hs[i], hs[j])}

\* The inner loop of findDuplicates: the indices j it pushes to the group of
\* the anchor i
laterSimilar(hs, i, processed) ==
    {j \in i + 1 .. Len(hs) :
        j \notin processed /\ areHazardsSimilar(hs[i], hs[j])}

processedAnchorOnly(processed, i, js) == processed \cup {i}

\* processed after the anchor i and the indices js were added
processedAdd(processed, i, js) == processed \cup {i} \cup js

\* The outer loop of findDuplicates from index i on
RECURSIVE findDuplicatesFrom(_, _, _, _)
findDuplicatesFrom(hs, i, processed, duplicates) ==
    IF i > Len(hs) THEN duplicates
    ELSE IF i \in processed
    THEN findDuplicatesFrom(hs, i + 1, processed, duplicates)
    ELSE LET js == laterSimilar(hs, i, processed)
             group == <<hs[i]>> \o Pushed(hs, js, i + 1)
         IN  findDuplicatesFrom(hs, i + 1, processedAdd(processed, i, js),
                                IF Len(group) > 1 THEN Append(duplicates, group)
                                ELSE duplicates)

findDuplicates(hs) == findDuplicatesFrom(hs, 1, {}, <<>>)

SimilarLats == {286139, 286147, 286148}
SimilarLngs == {772090, 772100, 772101}
SimilarTimes == {0, 3600000, 3600001}

SimilarHazards ==
    [type : HazardTypes, lat : SimilarLats, lng : SimilarLngs,
     detectedAt : SimilarTimes]

SimilarInit ==
    /\ now = 0
    /\ gone = {}
    /\ hazards = <<>>
    /\ alerts = <<>>
    /\ tickets = <<>>
    /\ req = [r \in Requests |-> IdleRequest]
    /\ res = NoResponse
    /\ fp = <<>>
    /\ sla = <<>>
    /\ rel = <<>>
    /\ mg = <<>>
    /\ risk = <<>>
    /\ \E a \in SimilarHazards, b \in SimilarHazards :
           dup = [a |-> a, b |-> b, ab |-> FALSE, ba |-> FALSE, pc |-> "input"]

\* areHazardsSimilar(a, b) and areHazardsSimilar(b, a)
CompareHazards ==
    /\ dup.pc = "input"
    /\ dup' = [dup EXCEPT !.ab = areHazardsSimilar(dup.a, dup.b),
                          !.ba = areHazardsSimilar(dup.b, dup.a),
                          !.pc = "compared"]
    /\ UNCHANGED <<now, hazards, alerts, tickets, req, res, fp, sla, rel, mg, risk, gone>>

SimilarNext == CompareHazards

SpecSimilar == SimilarInit /\ [][SimilarNext]_vars

\* Hazards along a meridian, 89 m apart from one to the next
DupLats == {286139, 286147, 286155}
DupTimes == {0, 7200000}

DupHazards ==
    [type : HazardTypes, lat : DupLats, lng : {772090}, detectedAt : DupTimes]

DupLists == UNION {[1 .. n -> DupHazards] : n \in 0 .. MaxList}

\* The hazards of a list, the i-th with _id i.
DupWithIds(list) ==
    [i \in 1 .. Len(list) |->
        [_id |-> i, type |-> list[i].type, lat |-> list[i].lat,
         lng |-> list[i].lng, detectedAt |-> list[i].detectedAt]]

DupInit ==
    /\ now = 0
    /\ gone = {}
    /\ hazards = <<>>
    /\ alerts = <<>>
    /\ tickets = <<>>
    /\ req = [r \in Requests |-> IdleRequest]
    /\ res = NoResponse
    /\ fp = <<>>
    /\ sla = <<>>
    /\ rel = <<>>
    /\ mg = <<>>
    /\ risk = <<>>
    /\ \E list \in DupLists :
           dup = [hazards |-> DupWithIds(list), duplicates |-> <<>>, pc |-> "input"]

\* findDuplicates(hazards)
FindDuplicates ==
    /\ dup.pc = "input"
    /\ dup' = [dup EXCEPT !.duplicates = findDuplicates(dup.hazards),
                          !.pc = "found"]
    /\ UNCHANGED <<now, hazards, alerts, tickets, req, res, fp, sla, rel, mg, risk, gone>>

DupNext == FindDuplicates

SpecDup == DupInit /\ [][DupNext]_vars

-----------------------------------------------------------------------------
(* The stored hash and the fields it is computed from *)

\* Bodies of PUT /api/hazards/:id that name type, location, detectedAt or
\* hash.
FieldPutBodies ==
    {[has |-> {"type"}, type |-> t, lng |-> 772090, lat |-> 286139,
      detectedAt |-> 0, hash |-> ""] : t \in HazardTypes}
    \cup
    {[has |-> {"lng", "lat"}, type |-> "pothole", lng |-> lng, lat |-> 286139,
      detectedAt |-> 0, hash |-> ""] : lng \in {772090, 772190}}
    \cup
    {[has |-> {"detectedAt"}, type |-> "pothole", lng |-> 772090, lat |-> 286139,
      detectedAt |-> 86400000, hash |-> ""]}
    \cup
    {[has |-> {"hash"}, type |-> "pothole", lng |-> 772090, lat |-> 286139,
      detectedAt |-> 0, hash |-> "md5(other)"]}

\* POST /api/hazards with the hazard's own fields stored: validateHazard
\* strips detectedAt, so generateHash and the schema default both read the
\* clock.
PostHazardFields(o) ==
    /\ Cardinality(Ids(hazards)) < MaxHazards
    /\ LET hash == generateHash(o[1], o[2], o[3], now)
           existingHazard == findOneByHash(hash)
       IN  IF existingHazard # <<>>
           THEN /\ res' = [route |-> "postHazard", id |-> existingHazard[1],
                           status |-> 409]
                /\ UNCHANGED hazards
           ELSE /\ hazards' = Insert(hazards,
                                     [type |-> o[1], lng |-> o[2], lat |-> o[3],
                                      detectedAt |-> now, hash |-> hash])
                /\ res' = [route |-> "postHazard", id |-> NewId(hazards),
                           status |-> 201]
    /\ UNCHANGED <<now, alerts, tickets, req, fp, sla, rel, mg, risk, dup, gone>>

\* PUT /api/hazards/:id on the fields the hash is computed from
PutHazardFields(h, updates) ==
    /\ IF h \notin Ids(hazards)
       THEN /\ res' = [route |-> "putHazard", id |-> h, status |-> 404]
            /\ UNCHANGED hazards
       ELSE /\ hazards' = [hazards EXCEPT ![h] = Spread(@, deleteHashAndId(updates))]
            /\ res' = [route |-> "putHazard", id |-> h, status |-> 200]
    /\ UNCHANGED <<now, alerts, tickets, req, fp, sla, rel, mg, risk, dup, gone>>

FieldNext ==
    \/ \E o \in Observations : PostHazardFields(o)
    \/ \E h \in HazardIds, updates \in FieldPutBodies : PutHazardFields(h, updates)
    \/ Tick

SpecField == Init /\ [][FieldNext]_vars

-----------------------------------------------------------------------------
(* The create routes together *)

CreateNext ==
    \/ \E o \in Observations, sev \in Severities, image \in BOOLEAN,
          failing \in SUBSET HazardCollaborators, random \in Randoms :
           PostHazard(o, sev, image, failing, random)
    \/ \E user \in AlertOwners, enabled, voiceFails \in BOOLEAN :
           PostAlert(user, enabled, voiceFails)
    \/ \E priority \in Priorities, syncFails \in BOOLEAN :
           PostTicket(priority, syncFails)

SpecCreate == Init /\ [][CreateNext]_vars

\* Time passes between two ticket creations.
TicketIdTick ==
    /\ now < MaxIdTicks * (1000 * 60 * 3)
    /\ now' = now + 1000 * 60 * 3
    /\ UNCHANGED <<hazards, alerts, tickets, req, res, fp, sla, rel, mg, risk, dup, gone>>

\* The routes that create or update a ticket that has a ticketId.
TicketIdNext ==
    \/ \E o \in Observations, sev \in {"low", "critical"}, random \in Randoms :
           PostHazard(o, sev, FALSE, {}, random)
    \/ \E h \in HazardIds, body \in FromHazardIdBodies, random \in Randoms :
           PostTicketFromHazardWithId(h, body, random)
    \/ \E t \in 1 .. MaxCreated, updates \in PutIdBodies : PutTicket(t, updates)
    \/ TicketIdTick

SpecTicketId == Init /\ [][TicketIdNext]_vars

-----------------------------------------------------------------------------
(* Claims on hazard creation *)

\* C1: under every interleaving of concurrent POST /api/hazards requests the
\* hazard store never holds two hazards with the same fingerprint.
C1_UniqueFingerprint ==
    \A i, j \in Ids(hazards) : hazards[i].hash = hazards[j].hash => i = j

\* Two requests with one fingerprint both passed the lookup; the index
\* refused the second insert.
C1_Witness ==
    \E r1, r2 \in Requests :
        /\ r1 # r2
        /\ req[r1].hash = req[r2].hash
        /\ req[r1].status = 201
        /\ req[r2].status = errorHandler("E11000")

\* C2: a POST /api/hazards whose fingerprint a stored hazard already owns is
\* answered 409 with that hazard's identity, and the request creates or
\* changes no hazard, alert or ticket, then or later.
C2_ConflictOnOwnedFingerprint ==
    [][\A r \in Requests :
          /\ ( /\ req[r].pc = "idle"
               /\ req'[r].pc # "idle"
               /\ \E i \in Ids(hazards) : hazards[i].hash = req'[r].hash )
             => /\ req'[r].pc = "done"
                /\ req'[r].status = 409
                /\ req'[r].existingHazardId \in Ids(hazards)
                /\ hazards[req'[r].existingHazardId].hash = req'[r].hash
                /\ UNCHANGED <<hazards, alerts, tickets>>
          /\ req[r].pc = "done" => req'[r] = req[r]]_vars

\* A request was answered 409 while another hazard creation had gone through.
C2_Witness ==
    \E r \in Requests :
        /\ req[r].status = 409
        /\ hazards[req[r].existingHazardId].hash = req[r].hash

\* C3: of two create requests with one fingerprint, exactly one persists a
\* hazard and the other is answered 409 with the persisted hazard's identity,
\* never with another error.
C3_LoserGetsConflict ==
    \A r1, r2 \in Requests :
        ( /\ r1 # r2
          /\ req[r1].pc = "done"
          /\ req[r2].pc = "done"
          /\ req[r1].hash = req[r2].hash )
        => /\ {req[r1].status, req[r2].status} \subseteq {201, 409}
           /\ req[r1].status = 201
                => /\ req[r2].status = 409
                   /\ req[r2].existingHazardId = req[r1].hazardId

-----------------------------------------------------------------------------
(* Claims on the fingerprint *)

\* The thousandth of a degree nearest to c, the upper one for a half.
Round3(c) ==
    CHOOSE k \in {c \div 10, c \div 10 + 1} : 10 * k - 5 <= c /\ c < 10 * k + 5

\* The 5-minute bucket of t.
Floor5min(t) ==
    CHOOSE b \in {t \div 300000} : 300000 * b <= t /\ t < 300000 * (b + 1)

SameBucket(a, b) ==
    /\ a.type = b.type
    /\ Round3(a.lng) = Round3(b.lng)
    /\ Round3(a.lat) = Round3(b.lat)
    /\ Floor5min(a.detectedAt) = Floor5min(b.detectedAt)

\* C4: generateHash gives two observations one fingerprint exactly when they
\* have the same type, the same longitude and latitude rounded to 3 decimals
\* and the same 5-minute bucket of detectedAt.
C4_FingerprintIffSameBucket ==
    fp.pc = "hashed" => ((fp.ha = fp.hb) <=> SameBucket(fp.a, fp.b))

\* Two different observations of one cell and bucket got one fingerprint.
C4_Witness ==
    /\ fp.pc = "hashed"
    /\ fp.a.lng # fp.b.lng
    /\ fp.a.detectedAt # fp.b.detectedAt
    /\ fp.ha = fp.hb

-----------------------------------------------------------------------------
(* Claims on the ticket lifecycle *)

TerminalStatuses == {"completed", "rejected", "duplicate"}

\* The place of a status on the way submitted -> ... -> completed.
Rank(status) ==
    CASE status = "submitted" -> 1
      [] status = "acknowledged" -> 2
      [] status = "assigned" -> 3
      [] status = "in_progress" -> 4
      [] status = "completed" -> 5
      [] OTHER -> 6

\* A status change the ticket state machine has: forward on the way to
\* completed, or from a status that is not terminal to rejected or duplicate.
AllowedTransition(from, to) ==
    /\ from \notin TerminalStatuses
    /\ \/ to \in {"rejected", "duplicate"}
       \/ Rank(from) < Rank(to)

\* C5: a ticket's status only moves forward along submitted, acknowledged,
\* assigned, in_progress, completed, or from a non-terminal status to
\* rejected or duplicate, and never leaves completed, rejected or duplicate.
C5_StatusMonotonic ==
    [][\A t \in Ids(tickets) :
          tickets'[t].status # tickets[t].status
              => AllowedTransition(tickets[t].status, tickets'[t].status)]_vars

\* C6: an assign request for a completed ticket (or any status change the
\* state machine lacks) is rejected with an error, and the ticket's status,
\* assignment record and timeline stay as they were.
C6_InvalidTransitionRejected ==
    [][( /\ res'.route \in {"assign", "updateStatus"}
         /\ res'.id \in Ids(tickets)
         /\ \/ /\ res'.route = "assign"
               /\ ~AllowedTransition(tickets[res'.id].status, "assigned")
            \/ /\ tickets'[res'.id].status # tickets[res'.id].status
               /\ ~AllowedTransition(tickets[res'.id].status,
                                     tickets'[res'.id].status) )
        => /\ res'.status >= 400
           /\ tickets'[res'.id].status = tickets[res'.id].status
           /\ tickets'[res'.id].assignedTo = tickets[res'.id].assignedTo
           /\ tickets'[res'.id].timeline = tickets[res'.id].timeline]_vars

\* C7: every change of a ticket's status comes with exactly one new timeline
\* entry, which carries the new status.
C7_StatusChangeAppendsEntry ==
    [][\A t \in Ids(tickets) :
          tickets'[t].status # tickets[t].status
              => /\ Len(tickets'[t].timeline) = Len(tickets[t].timeline) + 1
                 /\ SubSeq(tickets'[t].timeline, 1, Len(tickets[t].timeline))
                        = tickets[t].timeline
                 /\ tickets'[t].timeline[Len(tickets'[t].timeline)].status
                        = tickets'[t].status]_vars

\* C9: a ticket created from a hazard has deadlines 2h/24h and priority
\* urgent when the hazard is critical, 4h/48h and high when it is high, and
\* 8h/72h and medium otherwise.
C9_SlaAndPriorityFromSeverity ==
    [][\A t \in Ids(tickets') \ Ids(tickets) :
          LET severity == hazards'[tickets'[t].hazardId].severity
          IN  /\ tickets'[t].sla =
                    IF severity = "critical"
                    THEN [responseTime |-> <<2>>, resolutionTime |-> <<24>>]
                    ELSE IF severity = "high"
                    THEN [responseTime |-> <<4>>, resolutionTime |-> <<48>>]
                    ELSE [responseTime |-> <<8>>, resolutionTime |-> <<72>>]
              /\ tickets'[t].priority =
                    IF severity = "critical" THEN "urgent"
                    ELSE IF severity = "high" THEN "high"
                    ELSE "medium"]_vars

\* C10: a ticket's sla.responseTime and sla.resolutionTime never change
\* after the ticket was created.
C10_SlaFixed ==
    [][\A t \in Ids(tickets) : tickets'[t].sla = tickets[t].sla]_vars

-----------------------------------------------------------------------------
(* Claims on the SLA status *)

\* C8: with an SLA, slaStatus is overdue_response exactly when the status is
\* submitted and the read is after submittedAt + responseTime hours,
\* overdue_resolution exactly when the status is acknowledged, assigned or
\* in_progress and the read is after submittedAt + resolutionTime hours, and
\* on_track otherwise; without an SLA it is not_set.
C8_SlaStatus ==
    sla.slaStatus # None =>
        /\ ( sla.responseTime = Undefined /\ sla.resolutionTime = Undefined )
              => sla.slaStatus = "not_set"
        /\ ( sla.responseTime # Undefined /\ sla.resolutionTime # Undefined )
              => sla.slaStatus =
                   IF /\ sla.status = "submitted"
                      /\ sla.at > sla.submittedAt + sla.responseTime[1] * 3600000
                   THEN "overdue_response"
                   ELSE IF /\ sla.status \in {"acknowledged", "assigned", "in_progress"}
                           /\ sla.at > sla.submittedAt + sla.resolutionTime[1] * 3600000
                        THEN "overdue_resolution"
                   ELSE "on_track"

-----------------------------------------------------------------------------
(* Claims on the alert lifecycle *)

\* C12: isRelevant() is true exactly when expiresAt > now, the alert is not
\* dismissed and delivery.status is not failed; an alert whose expiresAt is
\* in the past is never relevant.
C12_RelevantIffLiveUndismissedUnfailed ==
    rel.pc = "read" =>
        /\ rel.relevant <=> ~( \/ rel.expiresAt <= rel.at
                               \/ rel.dismissed
                               \/ rel.status = "failed" )
        /\ rel.expiresAt < rel.at => ~rel.relevant

\* A delivered alert that is not dismissed was read after its expiry.
C12_Witness ==
    /\ rel.pc = "read"
    /\ rel.expiresAt < rel.at
    /\ ~rel.dismissed
    /\ rel.status = "delivered"
    /\ ~rel.relevant

\* C13: once dismiss() was applied to an alert, isRelevant() is false at
\* every later time and after every later operation on the alert.
C13_DismissedNeverRelevant ==
    [][/\ ( /\ res'.route = "dismiss"
            /\ res'.status = 200
            /\ res' # res )
          => ~isRelevant(alerts'[res'.id], now')
       /\ \A a \in Ids(alerts) :
              alerts[a].interaction.dismissed
                  => /\ ~isRelevant(alerts[a], now)
                     /\ ~isRelevant(alerts'[a], now')]_vars

\* A dismissed alert that has not expired was delivered afterwards.
C13_Witness ==
    \E a \in Ids(alerts) :
        /\ alerts[a].interaction.dismissed
        /\ alerts[a].interaction.dismissedAt # Undefined
        /\ alerts[a].interaction.dismissedAt[1] < now
        /\ alerts[a].expiresAt > now
        /\ alerts[a].delivery.status = "delivered"

\* The changes of delivery.status the alert state machine has.
AllowedDelivery(from, to) ==
    \/ from = "pending" /\ to \in {"sent", "failed", "cancelled"}
    \/ from = "sent" /\ to \in {"delivered", "failed"}

\* C14: delivery.status only changes pending -> sent, pending -> failed,
\* sent -> delivered, sent -> failed and pending -> cancelled; no operation
\* leaves delivered or failed, goes back to pending, or cancels an alert
\* that is not pending.
C14_DeliveryTransitions ==
    [][\A a \in Ids(alerts) :
          alerts'[a].delivery.status # alerts[a].delivery.status
              => AllowedDelivery(alerts[a].delivery.status,
                                 alerts'[a].delivery.status)]_vars

\* C15: the acknowledged and dismissed flags stay true once set, and a
\* repeated acknowledge, dismiss or bulk-dismiss leaves acknowledgedAt,
\* actionTaken and dismissedAt as first recorded.
C15_InteractionSetOnce ==
    [][\A a \in Ids(alerts) :
          /\ alerts[a].interaction.acknowledged
                => /\ alerts'[a].interaction.acknowledged
                   /\ alerts'[a].interaction.acknowledgedAt
                          = alerts[a].interaction.acknowledgedAt
                   /\ alerts'[a].interaction.actionTaken
                          = alerts[a].interaction.actionTaken
          /\ alerts[a].interaction.dismissed
                => /\ alerts'[a].interaction.dismissed
                   /\ alerts'[a].interaction.dismissedAt
                          = alerts[a].interaction.dismissedAt]_vars

-----------------------------------------------------------------------------
(* Claims on the hazard lifecycle *)

\* C16: once a hazard's status is fixed or false_positive it never changes
\* again under feedback, votes and PUT updates.
C16_TerminalHazardStatus ==
    [][\A h \in Ids(hazards) :
          hazards[h].status \in {"fixed", "false_positive"}
              => hazards'[h].status = hazards[h].status]_vars

-----------------------------------------------------------------------------
(* Claims on the create routes *)

NewAlertsFor(h) ==
    {a \in Ids(alerts') \ Ids(alerts) : alerts'[a].hazardId = h}

NewTicketsFor(h) ==
    {t \in Ids(tickets') \ Ids(tickets) : tickets'[t].hazardId = h}

Listed(t, list) == \E i \in 1 .. Len(list) : list[i] = t

-----------------------------------------------------------------------------
(* Claims on mergeHazards *)

\* The least confidence among the hazards of a group.
MinConfidence(group) ==
    CHOOSE c \in {group[i].confidence : i \in 1 .. Len(group)} :
        \A i \in 1 .. Len(group) : c <= group[i].confidence

\* C19: for every group of two or more hazards with confidences in [0,1],
\* the merged confidence is at least the least confidence among the members
\* and at most 1.0.
C19_MergedConfidenceBounds ==
    (mg.pc = "merged" /\ Len(mg.input) >= 2) =>
        /\ mg.merged[1].confidence >= MinConfidence(mg.input)
        /\ mg.merged[1].confidence <= 100 * ConfidenceScale

\* The average plus the boost went over 1.0 and the merged confidence is 1.0,
\* above a member's.
C19_Witness ==
    /\ mg.pc = "merged"
    /\ Len(mg.input) >= 2
    /\ MinConfidence(mg.input) = 95 * ConfidenceScale
    /\ \E i \in 1 .. Len(mg.input) : mg.input[i].confidence = 100 * ConfidenceScale
    /\ mg.merged[1].confidence = 100 * ConfidenceScale

\* The severities from low to critical.
SeverityRank == <<"low", "medium", "high", "critical">>

\* C20: for every group of two or more hazards, the merged severity is the
\* highest severity among the members under low < medium < high < critical.
C20_MergedSeverityIsMax ==
    (mg.pc = "merged" /\ Len(mg.input) >= 2) =>
        \E k \in 1 .. 4 :
            /\ mg.merged[1].severity = SeverityRank[k]
            /\ \E i \in 1 .. Len(mg.input) : mg.input[i].severity = SeverityRank[k]
            /\ \A i \in 1 .. Len(mg.input) :
                   \E j \in 1 .. k : mg.input[i].severity = SeverityRank[j]

\* The most confident hazard of the group is low and another is critical:
\* the merged hazard is critical.
C20_Witness ==
    /\ mg.pc = "merged"
    /\ Len(mg.input) >= 2
    /\ mg.hazards[1].severity = "low"
    /\ mg.hazards[1].confidence > mg.hazards[2].confidence
    /\ \E i \in 1 .. Len(mg.input) : mg.input[i].severity = "critical"
    /\ mg.merged[1].severity = "critical"

-----------------------------------------------------------------------------
(* Claims on the risk score *)

\* C21: with severity and votes fixed, neither risk score decreases when the
\* confidence increases, for all confidences in [0,1] including 0.
C21_RiskScoreMonotone ==
    risk.pc = "read" =>
        /\ risk.virtual[1] <= risk.virtual[2]
        /\ risk.helper[1] <= risk.helper[2]

-----------------------------------------------------------------------------
(* Claims on the overdue tickets *)

\* C22: GET /api/tickets/sla/overdue returns exactly the stored tickets whose
\* slaStatus is overdue_response or overdue_resolution at the time of the
\* query.
C22_OverdueListIsSlaOverdue ==
    sla.slaStatus # None =>
        (sla.listed <=> sla.slaStatus \in {"overdue_response", "overdue_resolution"})

-----------------------------------------------------------------------------
(* Claims on the alert queries *)

\* A step that answers one of the queries surfacing alerts to a user.
SurfacingQuery ==
    /\ alerts' = alerts
    /\ now' = now
    /\ \/ res'.route = "getAlerts" /\ res'.filter = "active"
       \/ res'.route = "nearby"
       \/ res'.route = "findActiveForUser"

\* C23: every alert returned by GET /api/alerts with the default status
\* filter, by GET /api/alerts/nearby or by Alert.findActiveForUser is
\* relevant at the time of the query: not expired, not dismissed and its
\* delivery status not failed.
C23_SurfacedAlertsRelevant ==
    [][SurfacingQuery => \A a \in res'.data : isRelevant(alerts[a], now)]_vars

-----------------------------------------------------------------------------
(* Claims on the duplicate groups *)

\* C24: every group returned by findDuplicates has at least two members,
\* its first member (the anchor) is the earliest input record of the group,
\* and every other member is similar to that anchor.
C24_GroupsAnchored ==
    dup.pc = "found" =>
        \A g \in 1 .. Len(dup.duplicates) :
            LET group == dup.duplicates[g]
            IN  /\ Len(group) >= 2
                /\ \A k \in 2 .. Len(group) :
                       /\ group[1]._id < group[k]._id
                       /\ areHazardsSimilar(group[1], group[k])

\* A group of three whose second and third member are not similar to each
\* other.
C24_Witness ==
    /\ dup.pc = "found"
    /\ Len(dup.duplicates) = 1
    /\ Len(dup.duplicates[1]) = 3
    /\ ~areHazardsSimilar(dup.duplicates[1][2], dup.duplicates[1][3])

\* A, B, C in that order with A similar to B, B similar to C and A not
\* similar to C.
ChainOfThree ==
    /\ dup.pc = "found"
    /\ Len(dup.hazards) = 3
    /\ areHazardsSimilar(dup.hazards[1], dup.hazards[2])
    /\ areHazardsSimilar(dup.hazards[2], dup.hazards[3])
    /\ ~areHazardsSimilar(dup.hazards[1], dup.hazards[3])

\* The hazard with identity id is a member of group.
InGroup(id, group) == \E k \in 1 .. Len(group) : group[k]._id = id

\* C25 as stated: for A, B, C given in that order with A similar to B, B
\* similar to C and A not similar to C, C still joins A's group.
C25_ChainJoinsAnchor ==
    ChainOfThree =>
        \E g \in 1 .. Len(dup.duplicates) :
            /\ dup.duplicates[g][1]._id = 1
            /\ InGroup(3, dup.duplicates[g])

\* C25, amended: for A, B, C given in that order with A similar to B, B
\* similar to C and A not similar to C, the only group is <<A, B>>: C is
\* compared against the anchor A only and joins no group.
C25_ChainLeavesThirdAlone ==
    ChainOfThree =>
        /\ Len(dup.duplicates) = 1
        /\ Len(dup.duplicates[1]) = 2
        /\ dup.duplicates[1][1]._id = 1
        /\ dup.duplicates[1][2]._id = 2

C25_Witness ==
    /\ ChainOfThree
    /\ \A g \in 1 .. Len(dup.duplicates) : ~InGroup(3, dup.duplicates[g])

\* The distance of the two compared hazards is at most 0.1 km: the squared
\* offsets in centimetres against the squared threshold.
Within100m ==
    ((dup.a.lat - dup.b.lat) * 1112) * ((dup.a.lat - dup.b.lat) * 1112)
      + ((dup.a.lng - dup.b.lng) * 976) * ((dup.a.lng - dup.b.lng) * 976)
        < 10001 * 10001

\* C26: areHazardsSimilar(a, b) is true exactly when a and b have the same
\* type, are at most 0.1 km apart and were detected at most 1 hour apart;
\* the result is the same for (a, b) and (b, a).
C26_SimilarIffTypeDistanceTime ==
    dup.pc = "compared" =>
        /\ dup.ab <=> /\ dup.a.type = dup.b.type
                      /\ Within100m
                      /\ dup.a.detectedAt - dup.b.detectedAt <= 3600000
                      /\ dup.b.detectedAt - dup.a.detectedAt <= 3600000
        /\ dup.ab = dup.ba

\* Two hazards of one type detected exactly one hour apart at different
\* latitudes, found similar in both orders.
C26_Witness ==
    /\ dup.pc = "compared"
    /\ dup.a.detectedAt - dup.b.detectedAt = 3600000
    /\ dup.a.lat # dup.b.lat
    /\ dup.ab
    /\ dup.ba

-----------------------------------------------------------------------------
(* Claims on the merged hazard *)

\* No member of the group is more confident than the i-th, and none as
\* confident was detected earlier.
FirstByConfidenceThenTime(i) ==
    \A j \in 1 .. Len(mg.input) :
        /\ mg.input[j].confidence <= mg.input[i].confidence
        /\ mg.input[j].confidence = mg.input[i].confidence
              => mg.input[j].detectedAt >= mg.input[i].detectedAt

\* C27: mergeHazards keeps the type, location and detection payload of the
\* member with the highest confidence, confidence ties broken by the earliest
\* detectedAt, for every group and every order of its members.
C27_PrimaryPayloadKept ==
    (mg.pc = "merged" /\ Len(mg.input) >= 2) =>
        \E i \in 1 .. Len(mg.input) :
            /\ FirstByConfidenceThenTime(i)
            /\ mg.merged[1].type = mg.input[i].type
            /\ mg.merged[1].location = mg.input[i].location
            /\ mg.merged[1].detectedAt = mg.input[i].detectedAt

\* The first two members are the most confident, the second detected before
\* the first: the merged hazard has the location of the second.
C27_Witness ==
    /\ mg.pc = "merged"
    /\ Len(mg.input) >= 2
    /\ mg.input[1].confidence = mg.input[2].confidence
    /\ mg.input[2].detectedAt < mg.input[1].detectedAt
    /\ FirstByConfidenceThenTime(2)
    /\ mg.merged[1].location = mg.input[2].location

\* C28: the merged feedback.reports is the concatenation of the members'
\* report lists, the members taken in the order of the input group and each
\* member's reports in their own order.
C28_ReportsInInputOrder ==
    (mg.pc = "merged" /\ Len(mg.input) >= 2) =>
        mg.merged[1].feedback.reports = FlatMapReports(mg.input)

\* C29: metadata.mergedFrom lists exactly the identities of the absorbed
\* members, every member of the group except the surviving primary.
C29_MergedFromAbsorbed ==
    (mg.pc = "merged" /\ Len(mg.input) >= 2) =>
        LET mergedFrom == mg.merged[1].metadata.mergedFrom
        IN  /\ {mergedFrom[k] : k \in 1 .. Len(mergedFrom)}
                 = {mg.input[i]._id : i \in 1 .. Len(mg.input)} \ {mg.merged[1]._id}
            /\ Len(mergedFrom) = Len(mg.input) - 1

-----------------------------------------------------------------------------
(* Claims on the assignment of a ticket *)

\* The ticket of the assign request just answered was found.
Assigned ==
    /\ res'.route = "assign"
    /\ res'.status # 404
    /\ tickets' # tickets

-----------------------------------------------------------------------------
(* Claims on the notification channels *)

\* C31: after sendMultiChannelNotification over the requested channels the
\* alert's delivery.status is failed (the failure reason is written with it)
\* if every requested channel failed, and otherwise delivered with
\* delivery.channels exactly the channels that succeeded.
C31_DeliveryAggregatesChannels ==
    [][(res'.route = "notify" /\ res' # res) =>
          LET delivery == alerts'[res'.id].delivery
          IN  IF res'.successful = {}
              THEN delivery.status = "failed"
              ELSE /\ delivery.status = "delivered"
                   /\ delivery.channels = res'.successful]_vars

-----------------------------------------------------------------------------
(* Claims on the stored hash *)

\* C32: in every reachable state each stored hazard's hash is the
\* fingerprint of its current type, location and detectedAt.
C32_StoredHashMatchesFields ==
    \A h \in Ids(hazards) :
        hazards[h].hash = generateHash(hazards[h].type, hazards[h].lng,
                                       hazards[h].lat, hazards[h].detectedAt)

\* C33: once no vote or feedback request is in flight, every hazard's upvotes
\* and downvotes equal the numbers of up-votes and down-votes that were
\* answered with success: no update is lost to an interleaving.
C33_NoVoteLost ==
    (\A r \in Requests : req[r].pc = "idle") =>
        \A h \in Ids(hazards) :
            /\ hazards[h].feedback.upvotes = VotesCast(MaxRequests, h, "up")
            /\ hazards[h].feedback.downvotes = VotesCast(MaxRequests, h, "down")

\* C34: after mergeHazards the list the caller passed holds the same hazards
\* in the same order, each with the fields it had before the call.
C34_InputUnmodified ==
    mg.pc = "merged" => mg.hazards = mg.input

\* The places <<g, k>> of the returned groups: member k of group g.
GroupPlaces ==
    {p \in (1 .. Len(dup.duplicates)) \X (1 .. Len(dup.hazards)) :
        p[2] <= Len(dup.duplicates[p[1]])}

\* C35: the groups returned by findDuplicates are pairwise disjoint: no
\* input record stands at two places, in two groups or twice in one group.
C35_GroupsDisjoint ==
    dup.pc = "found" =>
        \A p \in GroupPlaces, q \in GroupPlaces :
            p # q => dup.duplicates[p[1]][p[2]]._id # dup.duplicates[q[1]][q[2]]._id

\* The third record is similar to the second, which the first record's
\* group has already taken, and not to the first.
C35_Witness ==
    /\ dup.pc = "found"
    /\ Len(dup.hazards) = 3
    /\ Len(dup.duplicates) = 1
    /\ InGroup(1, dup.duplicates[1])
    /\ InGroup(2, dup.duplicates[1])
    /\ areHazardsSimilar(dup.hazards[2], dup.hazards[3])
    /\ ~areHazardsSimilar(dup.hazards[1], dup.hazards[3])

\* The input positions of the records that start a group.
Anchors == {dup.duplicates[g][1]._id : g \in 1 .. Len(dup.duplicates)}

\* The input positions of the records that are members of some group.
Grouped == {dup.duplicates[p[1]][p[2]]._id : p \in GroupPlaces}

\* C36: after findDuplicates no two records that each start a group or
\* remain ungrouped are similar to each other, and every record that is
\* similar to the anchor of a group is a member of a group.
C36_AnchorsAndLeftoversApart ==
    dup.pc = "found" =>
        LET all == 1 .. Len(dup.hazards)
            apart == Anchors \cup (all \ Grouped)
        IN  /\ \A i \in apart, j \in apart :
                   i # j => ~areHazardsSimilar(dup.hazards[i], dup.hazards[j])
            /\ \A i \in all, a \in Anchors :
                   areHazardsSimilar(dup.hazards[i], dup.hazards[a]) => i \in Grouped

\* A record that is left ungrouped beside a group although it is similar to
\* a member of that group.
C36_Witness ==
    /\ dup.pc = "found"
    /\ Len(dup.duplicates) = 1
    /\ \E i \in (1 .. Len(dup.hazards)) \ Grouped :
           \E k \in 2 .. Len(dup.duplicates[1]) :
               areHazardsSimilar(dup.hazards[i], dup.duplicates[1][k])

\* C37: in every reachable state every ticket's hazardId names a stored
\* hazard whose tickets list holds that ticket, and every entry of a
\* hazard's tickets list names a stored ticket whose hazardId is that hazard.
C37_ReferencesConsistent ==
    /\ \A t \in Ids(tickets) :
           /\ tickets[t].hazardId \in Ids(hazards)
           /\ \E k \in DOMAIN hazards[tickets[t].hazardId].tickets :
                  hazards[tickets[t].hazardId].tickets[k] = t
    /\ \A h \in Ids(hazards) :
           \A k \in DOMAIN hazards[h].tickets :
               /\ hazards[h].tickets[k] \in Ids(tickets)
               /\ tickets[hazards[h].tickets[k]].hazardId = h

\* The alerts of other users than user are as they were.
OthersUntouched(user) ==
    /\ Ids(alerts') = Ids(alerts)
    /\ \A b \in Ids(alerts) : alerts[b].userId # user => alerts'[b] = alerts[b]

\* C38: a request made as user u to read, acknowledge, dismiss or
\* bulk-dismiss alerts answers only with alerts whose userId is u and leaves
\* every alert owned by another user, its interaction record included, as
\* it was.
C38_OnlyOwnAlerts ==
    [][\A user \in AlertUsers :
          /\ \A a \in AlertIds :
                 /\ GetAlert(a, user) =>
                        \A b \in res'.data : alerts[b].userId = user
                 /\ (\E action \in ActionsTaken : AcknowledgeAlert(a, user, action))
                        => OthersUntouched(user)
                 /\ DismissAlert(a, user) => OthersUntouched(user)
          /\ \A alertIds \in SUBSET AlertIds :
                 BulkDismissAlerts(alertIds, user) => OthersUntouched(user)]_vars

\* An alert of one user was asked for, by read, acknowledge or dismiss, as
\* the other user and not found, and is neither acknowledged nor dismissed.
C38_Witness ==
    /\ res.route \in {"getAlert", "acknowledge", "dismiss"}
    /\ res.status = 404
    /\ res.id \in Ids(alerts)
    /\ ~alerts[res.id].interaction.acknowledged
    /\ ~alerts[res.id].interaction.dismissed

=============================================================================
